---- MODULE Spec2Model ----
(***************************************************************************)
(* A model of the weenix kernel core: the TTY line discipline              *)
(* (drivers/tty/ldisc.c, held in src/unnamed/part_000), the address-space  *)
(* map with shadow objects (vm/mmap.c, vm/shadow.c) and fork (proc/fork.c).*)
(* Every subsystem has a specification of its own; the variables of the    *)
(* other subsystems keep their initial values under it.                    *)
(***************************************************************************)
EXTENDS Integers, Sequences, FiniteSets, TLC

(***************************************************************************)
(* Bounds of the model.                                                    *)
(***************************************************************************)
\* Size of the circular buffer (128 in the kernel; scaled down).
LDISC_BUFFER_SIZE == 4
\* Calls recorded after ldisc_init before the history is cut (SpecLdisc).
MaxHistory == 3
\* Calls made after ldisc_init, all recorded (SpecLdiscTest).
MaxTrace == 6
\* Longest tracked sequence of accepted-but-undelivered input.
MaxPending == 6
\* Sizes of the allocator pools: vmareas, memory objects, processes.
MaxAreas == 2
MaxMobjs == 4
MaxProcs == 2
\* The bytes of a page, and the longest string vmmap_write is given.
PAGE_SIZE == 2
MaxWrite == 3
\* User memory, in pages: [USER_MEM_LOW_PN, USER_MEM_HIGH_PN).
USER_MEM_LOW_PN == 1
USER_MEM_HIGH_PN == 5

(***************************************************************************)
(* Characters.  Control bytes keep the names of drivers/keyboard.h.        *)
(***************************************************************************)
NUL == "NUL"
NL  == "NL"
EOT == "EOT"
ETX == "ETX"
BS  == "BS"
\* errno values
EINTR == 4
ENOMEM == 12
EFAULT == 14
ENOENT == 2
EINVAL == 22
ENOTEMPTY == 39
EPERM == 1
EEXIST == 17
ENOTDIR == 20
ENAMETOOLONG == 36
\* The longest path given to the path functions.
MaxPath == 5
\* The longest path given to do_rmdir.
MaxRmdirPath == 4
\* The longest path given to the other path system calls, and the longest
\* name of a directory entry (the length is scaled down).
MaxSysPath == 2
NAME_LEN == 2
\* sizeof(dirent_t) (scaled down).
DIRENT_SIZE == 1
\* The size of a process's descriptor table and the number of file objects.
NFILES == 3
MaxFiles == 2
\* The largest length of a regular file.
MaxLen == 5
\* The size of the buffer given to a device read.
MaxBuf == 2
\* int has INT_MOD values, half of them negative; off_t and size_t are wider
\* than every position of the model.
INT_MOD == 8
EBADF == 9
EISDIR == 21
EMFILE == 24
ENODEV == 19
\* size_t arithmetic wraps at this value (the width is scaled down)
SIZE_T_MOD == 16

\* Keys fed by each specification: ordinary characters and control bytes.
Control  == {NL, EOT, ETX, BS}
Keys     == {"a", "b", "t"} \cup Control
KeysWait == {"a"} \cup Control
KeysTest == {"a", "b"} \cup Control
\* Values of the count argument of ldisc_read.
Counts     == {0, 1, 2, 10}
CountsTest == {10}
\* Threads that may call ldisc_wait_read.
Readers == {"r1", "r2"}

Index == 0 .. (LDISC_BUFFER_SIZE - 1)

VARIABLES
  ldisc_buffer,      \* ldisc_t.ldisc_buffer : Index -> byte
  ldisc_head,        \* ldisc_t.ldisc_head
  ldisc_tail,        \* ldisc_t.ldisc_tail
  ldisc_cooked,      \* ldisc_t.ldisc_cooked
  ldisc_full,        \* ldisc_t.ldisc_full : the characters "0" / "1"
  ldisc_read_queue,  \* ldisc_t.ldisc_read_queue : sleeping threads, in order
  kt_wait,           \* per reader: where it is inside ldisc_wait_read
  kt_cancelled,      \* per reader: kthread_t.kt_cancelled
  last,              \* the call that made the last step, with its result
  trace,             \* the calls made since ldisc_init, while recorded
  pending,           \* accepted input not yet delivered to a reader
  vmarea,            \* the vmarea_t pool
  l_next,            \* list_link_t.l_next of every link
  l_prev,            \* list_link_t.l_prev of every link
  vmmap,             \* the vmmap_t pool
  mobj,              \* the mobj_t / mobj_shadow_t pool, with the page caches
  proc,              \* the proc_t pool
  pml4,              \* per process: the page table entries of its pages
  panic,             \* the kernel has stopped
  view,              \* per process: what it must find in its pages
  fs,                \* the vnodes (reference counts, locks) and the tree
  dev                \* the registered character devices and a caller's buffer

ldiscVars == <<ldisc_buffer, ldisc_head, ldisc_tail, ldisc_cooked, ldisc_full>>
vmVars == <<vmarea, l_next, l_prev, vmmap, mobj, proc, pml4, panic, view, fs,
           dev>>
vars == <<ldisc_buffer, ldisc_head, ldisc_tail, ldisc_cooked, ldisc_full,
          ldisc_read_queue, kt_wait, kt_cancelled, last, trace, pending,
          vmarea, l_next, l_prev, vmmap, mobj, proc, pml4, panic, view, fs,
          dev>>

(***************************************************************************)
(* ldisc_increment / ldisc_decrement                                       *)
(***************************************************************************)
ldisc_increment(x) == IF x = LDISC_BUFFER_SIZE - 1 THEN 0 ELSE x + 1

ldisc_decrement(x) == IF x = 0 THEN LDISC_BUFFER_SIZE - 1 ELSE x - 1

(***************************************************************************)
(* The record of a call: op, its argument, its return value, the bytes it  *)
(* copied out and what it sent to the virtual terminal.                    *)
(***************************************************************************)
Call(op, c, count, ret, buf, echo, who) ==
  [op |-> op, c |-> c, count |-> count, ret |-> ret, buf |-> buf,
   echo |-> echo, who |-> who]

\* An entry of the recorded history: a key press or a read.
K(c) == [op |-> "key", c |-> c, count |-> 0]

R(count) == [op |-> "read", c |-> "-", count |-> count]

\* The history once it is no longer recorded.
Cut == <<[op |-> "cut", c |-> "-", count |-> 0]>>

Record(e) ==
  IF trace = Cut \/ Len(trace) >= MaxHistory THEN Cut ELSE Append(trace, e)

(***************************************************************************)
(* ldisc_init                                                              *)
(***************************************************************************)
ldisc_init_cooked == LDISC_BUFFER_SIZE - 1

ldisc_init ==
  /\ ldisc_cooked = ldisc_init_cooked
  /\ ldisc_tail = 0
  /\ ldisc_head = 0
  /\ ldisc_full = "0"
  /\ ldisc_read_queue = <<>>
  /\ ldisc_buffer = [i \in Index |-> NUL]

(***************************************************************************)
(* The committed input of C4, as a history kept beside the buffer:         *)
(* committed = bytes readers are owed, line = the line being edited.       *)
(* Tracking stops (on = FALSE) once more than MaxPending bytes are owed.   *)
(***************************************************************************)
C4_PendingInit == [on |-> TRUE, committed |-> <<>>, line |-> <<>>]

C4_PendingOff == [on |-> FALSE, committed |-> <<>>, line |-> <<>>]

C4_PendingCap(p) ==
  IF p.on /\ Len(p.committed) + Len(p.line) > MaxPending THEN C4_PendingOff ELSE p

IsPrefix(s, t) == Len(s) <= Len(t) /\ SubSeq(t, 1, Len(s)) = s

\* The effect on the owed input of a key the line discipline did not discard.
C4_PendingKey(p, c) ==
  C4_PendingCap(
    IF ~p.on THEN p
    ELSE IF c = NL THEN [p EXCEPT !.committed = p.committed \o p.line \o <<NL>>,
                                  !.line = <<>>]
    ELSE IF c = EOT THEN [p EXCEPT !.committed = p.committed \o p.line,
                                   !.line = <<>>]
    ELSE IF c = ETX THEN [p EXCEPT !.committed = p.committed \o <<NL>>,
                                   !.line = <<>>]
    ELSE IF c = BS THEN
           [p EXCEPT !.line = IF p.line = <<>> THEN <<>>
                               ELSE SubSeq(p.line, 1, Len(p.line) - 1)]
    ELSE [p EXCEPT !.line = Append(p.line, c)])

\* The effect of a read that delivered buf.
C4_PendingRead(p, buf) ==
  IF p.on /\ IsPrefix(buf, p.committed)
  THEN [p EXCEPT !.committed = SubSeq(p.committed, Len(buf) + 1, Len(p.committed))]
  ELSE p

(***************************************************************************)
(* sched_wakeup_on(&queue, NULL): the first sleeper, if any, is taken off  *)
(* the queue and made runnable.                                            *)
(***************************************************************************)
sched_wakeup_on ==
  IF ldisc_read_queue = <<>>
  THEN UNCHANGED <<ldisc_read_queue, kt_wait>>
  ELSE /\ ldisc_read_queue' = Tail(ldisc_read_queue)
       /\ kt_wait' = [kt_wait EXCEPT ![Head(ldisc_read_queue)] = "woken"]

(***************************************************************************)
(* ldisc_key_pressed(ldisc, c)                                             *)
(***************************************************************************)
\* The key dropped only when the buffer is full: no slot is reserved.
key_discarded_full(c) == ldisc_full = "1" /\ c # ETX /\ c # BS

\* lines 173-184: the key is dropped before any case is looked at
key_discarded(c) ==
  \/ ldisc_full = "1" /\ c # ETX /\ c # BS
  \/ /\ ldisc_head = ldisc_decrement(ldisc_tail)
     /\ c # NL /\ c # BS /\ c # ETX

\* line 182: the newline that takes the reserved slot sets full
key_full(c) ==
  IF ldisc_head = ldisc_decrement(ldisc_tail) /\ c = NL THEN "1" ELSE ldisc_full

\* The head left where it was: the stored byte is not committed.
key_commit_head_stale == ldisc_head

\* lines 187-188 and 197-198: head moves past the stored byte and the line
\* is cooked up to it
key_commit_head == ldisc_increment(ldisc_head)

\* lines 202-205
key_etx_head == ldisc_increment(ldisc_cooked)

ldisc_key_pressed(c) ==
  /\ UNCHANGED <<ldisc_tail, kt_cancelled>>
  /\ IF key_discarded(c)
     THEN /\ UNCHANGED <<ldisc_buffer, ldisc_head, ldisc_cooked, ldisc_full,
                         ldisc_read_queue, kt_wait, pending>>
          /\ last' = Call("key", c, 0, 0, <<>>, "none", "kbd")
     ELSE /\ ldisc_full' = key_full(c)
          /\ pending' = C4_PendingKey(pending, c)
          /\ IF c = NL
             THEN /\ ldisc_buffer' = [ldisc_buffer EXCEPT ![ldisc_head] = c]
                  /\ ldisc_head' = key_commit_head
                  /\ ldisc_cooked' = key_commit_head
                  /\ sched_wakeup_on
                  /\ last' = Call("key", c, 0, 0, <<>>, NL, "kbd")
             ELSE IF c = EOT
             THEN /\ ldisc_buffer' = [ldisc_buffer EXCEPT ![ldisc_head] = c]
                  /\ ldisc_head' = key_commit_head
                  /\ ldisc_cooked' = key_commit_head
                  /\ sched_wakeup_on
                  /\ last' = Call("key", c, 0, 0, <<>>, "none", "kbd")
             ELSE IF c = ETX
             THEN /\ ldisc_head' = key_etx_head
                  /\ ldisc_buffer' =
                       [ldisc_buffer EXCEPT ![ldisc_decrement(key_etx_head)] = NL]
                  /\ ldisc_cooked' = key_etx_head
                  /\ UNCHANGED <<ldisc_read_queue, kt_wait>>
                  /\ last' = Call("key", c, 0, 0, <<>>, "none", "kbd")
             ELSE IF c = BS
             THEN /\ IF ldisc_head = ldisc_cooked
                     THEN /\ UNCHANGED ldisc_head
                          /\ last' = Call("key", c, 0, 0, <<>>, "none", "kbd")
                     ELSE /\ ldisc_head' = ldisc_decrement(ldisc_head)
                          /\ last' = Call("key", c, 0, 0, <<>>, BS, "kbd")
                  /\ UNCHANGED <<ldisc_buffer, ldisc_cooked, ldisc_read_queue, kt_wait>>
             ELSE /\ ldisc_buffer' = [ldisc_buffer EXCEPT ![ldisc_head] = c]
                  /\ ldisc_head' = ldisc_increment(ldisc_head)
                  /\ UNCHANGED <<ldisc_cooked, ldisc_read_queue, kt_wait>>
                  /\ last' = Call("key", c, 0, 0, <<>>, c, "kbd")

(***************************************************************************)
(* ldisc_read(ldisc, buf, count): the loop of lines 104-123, from position *)
(* iterator with buf copied so far; the result is the new tail, the new    *)
(* full flag and the bytes copied (the return value is their number).      *)
(***************************************************************************)
RECURSIVE ldisc_read_loop(_, _, _, _)
ldisc_read_loop(iterator, buf, full, count) ==
  IF iterator = ldisc_cooked
  THEN [tail |-> ldisc_tail, full |-> full, buf |-> buf]
  ELSE IF ldisc_buffer[iterator] = EOT
  THEN [tail |-> ldisc_increment(iterator), full |-> full, buf |-> buf]
  ELSE LET buf2  == Append(buf, ldisc_buffer[iterator])
           next  == ldisc_increment(iterator)
           full2 == IF Len(buf2) > 0 /\ full = "1" THEN "0" ELSE full
       IN IF buf2[Len(buf2)] = NL
          THEN [tail |-> next, full |-> full2, buf |-> buf2]
          ELSE IF Len(buf2) = count
          THEN [tail |-> next, full |-> full2, buf |-> buf2]
          ELSE ldisc_read_loop(next, buf2, full2, count)

ldisc_read_result(count) == ldisc_read_loop(ldisc_tail, <<>>, ldisc_full, count)

ldisc_read(count) ==
  LET r == ldisc_read_result(count) IN
  /\ ldisc_tail' = r.tail
  /\ ldisc_full' = r.full
  /\ pending' = C4_PendingRead(pending, r.buf)
  /\ last' = Call("read", "-", count, Len(r.buf), r.buf, "none", "any")
  /\ UNCHANGED <<ldisc_buffer, ldisc_head, ldisc_cooked, ldisc_read_queue,
                 kt_wait, kt_cancelled>>

(***************************************************************************)
(* ldisc_wait_read(ldisc, lock).  The loop runs without suspension up to   *)
(* sched_cancellable_sleep_on; a reader is "idle" (outside the call),      *)
(* "sleeping" (on the read queue), "woken" (made runnable by a wakeup) or  *)
(* "cancelled" (made runnable by a cancellation).                          *)
(***************************************************************************)
\* lines 71-74: one evaluation of the loop head; "sleep" stands for line 75
wait_read_test ==
  IF ldisc_head # ldisc_tail
  THEN IF ldisc_tail # ldisc_cooked THEN "return0" ELSE "sleep"
  ELSE "return0"

\* one pass from the loop head for thread t
wait_read_pass(t) ==
  IF wait_read_test = "return0"
  THEN /\ kt_wait' = [kt_wait EXCEPT ![t] = "idle"]
       /\ last' = Call("wait", "-", 0, 0, <<>>, "none", t)
       /\ UNCHANGED ldisc_read_queue
  ELSE IF kt_cancelled[t]
  THEN \* sched_cancellable_sleep_on of a cancelled thread returns -EINTR at once
       /\ kt_wait' = [kt_wait EXCEPT ![t] = "idle"]
       /\ last' = Call("wait", "-", 0, 0 - EINTR, <<>>, "none", t)
       /\ UNCHANGED ldisc_read_queue
  ELSE /\ kt_wait' = [kt_wait EXCEPT ![t] = "sleeping"]
       /\ ldisc_read_queue' = Append(ldisc_read_queue, t)
       /\ last' = Call("sleep", "-", 0, 0, <<>>, "none", t)

\* a thread enters ldisc_wait_read
ldisc_wait_read(t) ==
  /\ kt_wait[t] = "idle"
  /\ wait_read_pass(t)
  /\ UNCHANGED <<ldiscVars, kt_cancelled, pending>>

\* sched_cancellable_sleep_on returned 0 (line 75): the loop goes round
wait_read_woken(t) ==
  /\ kt_wait[t] = "woken"
  /\ wait_read_pass(t)
  /\ UNCHANGED <<ldiscVars, kt_cancelled, pending>>

\* sched_cancellable_sleep_on returned -EINTR (lines 76-78)
wait_read_interrupted(t) ==
  /\ kt_wait[t] = "cancelled"
  /\ kt_wait' = [kt_wait EXCEPT ![t] = "idle"]
  /\ last' = Call("wait", "-", 0, 0 - EINTR, <<>>, "none", t)
  /\ UNCHANGED <<ldiscVars, ldisc_read_queue, kt_cancelled, pending>>

Remove(q, t) == SelectSeq(q, LAMBDA x : x # t)

\* kthread_cancel(thr): sched_cancel marks the thread and takes a
\* cancellable sleeper off its queue
kthread_cancel(t) ==
  /\ ~kt_cancelled[t]
  /\ kt_cancelled' = [kt_cancelled EXCEPT ![t] = TRUE]
  /\ IF kt_wait[t] = "sleeping"
     THEN /\ kt_wait' = [kt_wait EXCEPT ![t] = "cancelled"]
          /\ ldisc_read_queue' = Remove(ldisc_read_queue, t)
     ELSE UNCHANGED <<kt_wait, ldisc_read_queue>>
  /\ last' = Call("cancel", "-", 0, 0, <<>>, "none", t)
  /\ UNCHANGED <<ldiscVars, pending>>

(***************************************************************************)
(* Virtual memory: the kernel objects.                                     *)
(*                                                                         *)
(* Objects are named by their index in a pool (0 is the null pointer of a  *)
(* pool); slab allocation takes the lowest free index and fails when the   *)
(* pool is exhausted.  A list link is <<"vma_plink", a>> for vmarea a and  *)
(* <<"vmm_list", m>> for the list head of vmmap m.  Page contents are      *)
(* abstracted to one value per page.                                       *)
(***************************************************************************)
AreaIds == 1 .. MaxAreas
MobjIds == 1 .. MaxMobjs
ProcIds == 1 .. MaxProcs
MapIds  == 1 .. MaxProcs

NULL == <<"NULL", 0>>
Plink(a) == <<"vma_plink", a>>
VmmList(m) == <<"vmm_list", m>>
Links == {Plink(a) : a \in AreaIds} \cup {VmmList(m) : m \in MapIds}
AreaOf(link) == link[2]

\* size_t arithmetic, with the width scaled down
SizeT(x) == x % SIZE_T_MOD

\* mmap flags and protections as sets of their names
MAP_SHARED == {"SHARED"}
PROT_NONE == {}

\* the bytes of a page: never written (zero-filled), or the value stored
ZERO == "zero"
Vals == {"X", "Y"}

\* a vmarea_t after vmarea_alloc, and a free slot of the pool
vmarea_zero ==
  [used |-> TRUE, vma_start |-> 0, vma_end |-> 0, vma_off |-> 0,
   vma_prot |-> {}, vma_flags |-> {}, vma_vmmap |-> 0, vma_obj |-> 0]

vmarea_none == [vmarea_zero EXCEPT !.used = FALSE]

\* a free slot of the mobj pool
mobj_none ==
  [mo_type |-> "free", mo_refcount |-> 0, shadowed |-> 0, bottom_mobj |-> 0,
   frames |-> <<>>, bytes |-> <<>>]

vmmap_none == [used |-> FALSE, vmm_proc |-> 0]

proc_none ==
  [p_state |-> "free", p_status |-> 0, p_vmmap |-> 0, p_brk |-> 0,
   p_start_brk |-> 0]

\* the kernel state the handlers work on, as one record
Kernel ==
  [vmarea |-> vmarea, l_next |-> l_next, l_prev |-> l_prev, vmmap |-> vmmap,
   mobj |-> mobj, proc |-> proc, pml4 |-> pml4, panic |-> panic]

\* a null pointer dereference, a failed assertion or a loop that never ends
\* stops the kernel
Panic(k) == [k EXCEPT !.panic = TRUE]

Min(S) == CHOOSE x \in S : \A y \in S : x <= y

\* a local variable: v is computed once and F is the code that follows
Bind(v, F(_)) == F(v)

(***************************************************************************)
(* util/list.h: circular doubly linked lists.                              *)
(***************************************************************************)
list_init(k, list) ==
  [k EXCEPT !.l_next[list] = list, !.l_prev[list] = list]

list_link_init(k, link) ==
  [k EXCEPT !.l_next[link] = NULL, !.l_prev[link] = NULL]

list_link_is_linked(k, link) == k.l_next[link] # NULL /\ k.l_prev[link] # NULL

\* to_insert->l_next = link; to_insert->l_prev = link->l_prev;
\* link->l_prev->l_next = to_insert; link->l_prev = to_insert
list_insert_before(k, link, to_insert) ==
  IF k.panic THEN k
  ELSE IF k.l_prev[link] = NULL THEN Panic(k)
  ELSE [k EXCEPT !.l_next[to_insert] = link,
                 !.l_prev[to_insert] = k.l_prev[link],
                 !.l_next[k.l_prev[link]] = to_insert,
                 !.l_prev[link] = to_insert]

list_insert_tail(k, list, link) == list_insert_before(k, list, link)

\* link->l_prev->l_next = link->l_next; link->l_next->l_prev = link->l_prev;
\* link->l_next = link->l_prev = NULL
list_remove(k, link) ==
  IF k.panic THEN k
  ELSE IF k.l_prev[link] = NULL \/ k.l_next[link] = NULL THEN Panic(k)
  ELSE [k EXCEPT !.l_next[k.l_prev[link]] = k.l_next[link],
                 !.l_prev[k.l_next[link]] = k.l_prev[link],
                 !.l_next[link] = NULL,
                 !.l_prev[link] = NULL]

\* list_iterate visits every link once unless the list is corrupt; a walk
\* longer than this never ends
MaxWalk == MaxAreas + 1

\* the link list_iterate takes next after var, read before the body runs
list_next(k, var) == IF var = NULL THEN NULL ELSE k.l_next[var]

\* The areas list_iterate visits on a list when the body leaves the list
\* alone: a sequence of vmareas and whether the walk faulted.
RECURSIVE list_walk(_, _, _, _, _)
list_walk(k, list, var, seen, fuel) ==
  IF var = list THEN [areas |-> seen, fault |-> FALSE]
  ELSE IF var = NULL \/ fuel = 0 THEN [areas |-> seen, fault |-> TRUE]
  ELSE list_walk(k, list, k.l_next[var], Append(seen, AreaOf(var)), fuel - 1)

vmm_walk(k, m) == list_walk(k, VmmList(m), k.l_next[VmmList(m)], <<>>, MaxWalk)

\* the vmareas of map m, in list order
vmm_areas(k, m) == vmm_walk(k, m).areas

(***************************************************************************)
(* Memory objects: mobj_ref, mobj_put, anon_create and the default         *)
(* get_pframe.                                                             *)
(***************************************************************************)
FreeMobjs(k) == {o \in MobjIds : k.mobj[o].mo_type = "free"}

mobj_ref(k, o) ==
  IF k.panic THEN k
  ELSE IF o = 0 THEN Panic(k)
  ELSE [k EXCEPT !.mobj[o].mo_refcount = @ + 1]

\* mobj_put(&o): the count drops and at zero the destructor runs: the frames
\* go, and a shadow puts its shadowed and its bottom object
\* (shadow_destructor)
RECURSIVE mobj_put(_, _)
mobj_put(k, o) ==
  IF k.panic THEN k
  ELSE IF o = 0 \/ k.mobj[o].mo_type = "free" THEN Panic(k)
  ELSE IF k.mobj[o].mo_refcount > 1
  THEN [k EXCEPT !.mobj[o].mo_refcount = @ - 1]
  ELSE IF k.mobj[o].mo_type = "shadow"
  THEN mobj_put(mobj_put([k EXCEPT !.mobj[o] = mobj_none], k.mobj[o].shadowed),
                k.mobj[o].bottom_mobj)
  ELSE [k EXCEPT !.mobj[o] = mobj_none]

\* the object a slab allocation of the mobj pool returns, 0 for none
mobj_alloc(k) == IF FreeMobjs(k) = {} THEN 0 ELSE Min(FreeMobjs(k))

\* anon_create(): a new anonymous object with one reference, or 0
anon_create(k) ==
  Bind(mobj_alloc(k), LAMBDA o :
    IF o = 0 THEN [k |-> k, obj |-> 0]
    ELSE [k |-> [k EXCEPT !.mobj[o] =
                   [mobj_none EXCEPT !.mo_type = "anon", !.mo_refcount = 1]],
          obj |-> o])

\* mobj_find_pframe(o, pagenum)
mobj_find_pframe(k, o, pagenum) == pagenum \in DOMAIN k.mobj[o].frames

\* mobj_default_get_pframe(o, pagenum): the frame of o's page cache, created
\* and filled (an anonymous object fills with zeroes) when absent; a frame is
\* named by its object and page number
mobj_default_get_pframe(k, o, pagenum) ==
  IF mobj_find_pframe(k, o, pagenum)
  THEN [k |-> k, pf |-> <<o, pagenum>>]
  ELSE [k |-> [k EXCEPT !.mobj[o].frames = (pagenum :> ZERO) @@ @],
        pf |-> <<o, pagenum>>]

(***************************************************************************)
(* vm/shadow.c                                                             *)
(***************************************************************************)
\* the bottom of the chain a new shadow of object shadowed joins
shadow_bottom(k, shadowed) ==
  IF k.mobj[shadowed].mo_type = "shadow"
  THEN k.mobj[shadowed].bottom_mobj
  ELSE shadowed

\* shadow_create(shadowed): a new shadow with one reference that holds a
\* reference to the object it shadows and to the bottom of its chain, or 0
shadow_create(k, shadowed) ==
  Bind(mobj_alloc(k), LAMBDA o :
    IF o = 0 THEN [k |-> k, obj |-> 0]
    ELSE [k |-> mobj_ref(
                  mobj_ref([k EXCEPT !.mobj[o] =
                              [mobj_none EXCEPT
                                 !.mo_type = "shadow", !.mo_refcount = 1,
                                 !.shadowed = shadowed,
                                 !.bottom_mobj = shadow_bottom(k, shadowed)]],
                           shadowed),
                  shadow_bottom(k, shadowed)),
          obj |-> o])

\* the object a write through shadow o is served from
shadow_write_target(k, o) == k.mobj[o].bottom_mobj

\* the read walk of shadow_get_pframe, from object current: the first shadow
\* of the chain that caches the page, else the first object that is not a
\* shadow (0 when the chain ends in a null pointer)
RECURSIVE shadow_read_source(_, _, _)
shadow_read_source(k, current, pagenum) ==
  IF current = 0 THEN 0
  ELSE IF k.mobj[current].mo_type # "shadow" THEN current
  ELSE IF mobj_find_pframe(k, current, pagenum) THEN current
  ELSE shadow_read_source(k, k.mobj[current].shadowed, pagenum)

\* shadow_get_pframe(o, pagenum, forwrite, pfp)
shadow_get_pframe(k, o, pagenum, forwrite) ==
  IF forwrite
  THEN mobj_default_get_pframe(k, shadow_write_target(k, o), pagenum)
  ELSE Bind(shadow_read_source(k, k.mobj[o].shadowed, pagenum), LAMBDA src :
         IF src = 0 THEN [k |-> Panic(k), pf |-> <<0, 0>>]
         ELSE mobj_default_get_pframe(k, src, pagenum))

\* mobj_get_pframe(o, pagenum, forwrite, pfp): the object's own get_pframe
\* operation when it has one, else the default
mobj_get_pframe(k, o, pagenum, forwrite) ==
  IF o = 0 \/ k.mobj[o].mo_type = "free" THEN [k |-> Panic(k), pf |-> <<0, 0>>]
  ELSE IF k.mobj[o].mo_type = "shadow"
  THEN shadow_get_pframe(k, o, pagenum, forwrite)
  ELSE mobj_default_get_pframe(k, o, pagenum)

(***************************************************************************)
(* Page tables: pt_map and pt_unmap_range on the pages of a process.       *)
(***************************************************************************)
pt_map(k, p, page, pf, writable) ==
  [k EXCEPT !.pml4[p] = (page :> [pf |-> pf, write |-> writable]) @@ @]

\* pt_unmap_range(pml4, PN_TO_ADDR(lo), PN_TO_ADDR(hi))
pt_unmap_range(k, p, lo, hi) ==
  IF k.panic THEN k
  ELSE IF p = 0 THEN Panic(k)
  ELSE [k EXCEPT !.pml4[p] =
          [pg \in {x \in DOMAIN k.pml4[p] : ~(lo <= x /\ x < hi)} |-> k.pml4[p][pg]]]

(***************************************************************************)
(* vm/mmap.c (the vmmap part of the file)                                  *)
(***************************************************************************)
FreeAreas(k) == {a \in AreaIds : ~k.vmarea[a].used}

\* vmarea_alloc(): 0 when the allocator has nothing left
vmarea_alloc(k) ==
  IF FreeAreas(k) = {} THEN [k |-> k, area |-> 0]
  ELSE [k |-> list_link_init([k EXCEPT !.vmarea[Min(FreeAreas(k))] = vmarea_zero],
                             Plink(Min(FreeAreas(k)))),
        area |-> Min(FreeAreas(k))]

\* slab_obj_free(vmarea_allocator, vma)
vmarea_release(k, a) ==
  IF k.panic THEN k
  ELSE list_link_init([k EXCEPT !.vmarea[a] = vmarea_none], Plink(a))

\* vmarea_free(vma)
vmarea_free(k, a) ==
  IF k.panic THEN k
  ELSE Bind(IF list_link_is_linked(k, Plink(a))
            THEN list_remove(k, Plink(a)) ELSE k, LAMBDA k1 :
         vmarea_release(IF k1.vmarea[a].vma_obj # 0
                        THEN mobj_put(k1, k1.vmarea[a].vma_obj) ELSE k1,
                        a))

FreeMaps(k) == {m \in MapIds : ~k.vmmap[m].used}

\* vmmap_create(): 0 when the allocator has nothing left
vmmap_create(k) ==
  IF FreeMaps(k) = {} THEN [k |-> k, map |-> 0]
  ELSE [k |-> list_init([k EXCEPT !.vmmap[Min(FreeMaps(k))] =
                           [used |-> TRUE, vmm_proc |-> 0]],
                        VmmList(Min(FreeMaps(k)))),
        map |-> Min(FreeMaps(k))]

\* vmmap_destroy(&map): every area on the list is freed, then the map
RECURSIVE vmmap_destroy_loop(_, _, _, _, _)
vmmap_destroy_loop(k, list, var, next, fuel) ==
  IF k.panic \/ var = list THEN k
  ELSE IF fuel = 0 \/ var = NULL THEN Panic(k)
  ELSE Bind(vmarea_free(list_remove(k, var), AreaOf(var)), LAMBDA k1 :
         vmmap_destroy_loop(k1, list, next, list_next(k1, next), fuel - 1))

vmmap_destroy(k, m) ==
  Bind(vmmap_destroy_loop(k, VmmList(m), k.l_next[VmmList(m)],
                          list_next(k, k.l_next[VmmList(m)]), MaxWalk),
       LAMBDA k1 :
         IF k1.panic THEN k1
         ELSE [k1 EXCEPT !.vmmap[m] = vmmap_none,
                         !.l_next[VmmList(m)] = NULL,
                         !.l_prev[VmmList(m)] = NULL])

\* vmmap_insert(map, new_vma): the loop has no break, and the tail insertion
\* follows it in every case
RECURSIVE vmmap_insert_loop(_, _, _, _, _, _)
vmmap_insert_loop(k, list, var, next, new, fuel) ==
  IF k.panic \/ var = list THEN k
  ELSE IF fuel = 0 \/ var = NULL THEN Panic(k)
  ELSE Bind(IF k.vmarea[AreaOf(var)].vma_end >= k.vmarea[new].vma_start
            THEN list_insert_before(k, var, Plink(new))
            ELSE k, LAMBDA k1 :
         vmmap_insert_loop(k1, list, next, list_next(k1, next), new, fuel - 1))

vmmap_insert(k, m, new) ==
  IF k.panic THEN k
  ELSE list_insert_tail(
         vmmap_insert_loop(k, VmmList(m), k.l_next[VmmList(m)],
                           list_next(k, k.l_next[VmmList(m)]), new, MaxWalk),
         VmmList(m), Plink(new))

\* the first area of a walk that covers vfn, 0 for none
vmmap_lookup_first(k, areas, vfn) ==
  Bind({i \in 1 .. Len(areas) : /\ k.vmarea[areas[i]].vma_start <= vfn
                                /\ k.vmarea[areas[i]].vma_end > vfn},
       LAMBDA hits : IF hits = {} THEN 0 ELSE areas[Min(hits)])

\* vmmap_lookup(map, vfn): the first area on the list that covers vfn, 0
\* when the walk ends without one; fault when the walk does not end
vmmap_lookup(k, m, vfn) ==
  Bind(vmm_walk(k, m), LAMBDA w :
    Bind(vmmap_lookup_first(k, w.areas, vfn), LAMBDA hit :
      [area |-> hit, fault |-> hit = 0 /\ w.fault]))

\* vmmap_find_range, VMMAP_DIR_LOHI: pages user_start_page up to
\* user_end_page - 1; the result is start, -1 or a fault of the lookup
RECURSIVE find_range_lohi(_, _, _, _, _, _)
find_range_lohi(k, m, npages, i, count, start) ==
  IF i >= USER_MEM_HIGH_PN THEN [ret |-> SizeT(0 - 1), fault |-> FALSE]
  ELSE Bind(vmmap_lookup(k, m, i), LAMBDA l :
         IF l.fault THEN [ret |-> 0, fault |-> TRUE]
         ELSE IF l.area # 0
         THEN find_range_lohi(k, m, npages, i + 1, 0, 0)
         ELSE IF count + 1 = npages
         THEN [ret |-> IF count = 0 THEN i ELSE start, fault |-> FALSE]
         ELSE find_range_lohi(k, m, npages, i + 1, count + 1,
                              IF count = 0 THEN i ELSE start))

\* vmmap_find_range, VMMAP_DIR_HILO: pages user_end_page down to
\* user_start_page
RECURSIVE find_range_hilo(_, _, _, _, _)
find_range_hilo(k, m, npages, i, count) ==
  IF i < USER_MEM_LOW_PN THEN [ret |-> SizeT(0 - 1), fault |-> FALSE]
  ELSE Bind(vmmap_lookup(k, m, i), LAMBDA l :
         IF l.fault THEN [ret |-> 0, fault |-> TRUE]
         ELSE IF l.area # 0
         THEN find_range_hilo(k, m, npages, i - 1, 0)
         ELSE IF count + 1 = npages THEN [ret |-> i, fault |-> FALSE]
         ELSE find_range_hilo(k, m, npages, i - 1, count + 1))

vmmap_find_range(k, m, npages, dir) ==
  IF dir = "LOHI"
  THEN find_range_lohi(k, m, npages, USER_MEM_LOW_PN, 0, 0)
  ELSE find_range_hilo(k, m, npages, USER_MEM_HIGH_PN, 0)

\* vmmap_remove, lines 717-721: the area starts inside the range and ends
\* after it
vmmap_remove_front(k, a, p, endpage) ==
  pt_unmap_range([k EXCEPT !.vmarea[a].vma_start = endpage,
                           !.vmarea[a].vma_off = 0],
                 p, endpage, endpage)

\* vmmap_remove, lines 727-735: the fields of the upper half of a split
\* area, and the lower half cut at lopage
vmmap_remove_split_fields(k, m, a, new, lopage, endpage) ==
  Bind(mobj_ref([k EXCEPT !.vmarea[new].vma_start = endpage,
                          !.vmarea[new].vma_end = k.vmarea[a].vma_end,
                          !.vmarea[new].vma_obj = k.vmarea[a].vma_obj],
                k.vmarea[a].vma_obj),
       LAMBDA k1 :
         IF k1.panic THEN k1
         ELSE [k1 EXCEPT !.vmarea[new].vma_flags = k.vmarea[a].vma_flags,
                         !.vmarea[new].vma_off = 0,
                         !.vmarea[new].vma_prot = k.vmarea[a].vma_prot,
                         !.vmarea[new].vma_vmmap = m,
                         !.vmarea[a].vma_end = lopage])

\* vmmap_remove, lines 722-738: the range lies strictly inside the area
vmmap_remove_split(k, m, a, p, lopage, endpage) ==
  Bind(vmarea_alloc(k), LAMBDA al :
    IF al.area = 0 THEN [k |-> k, ret |-> 0 - ENOMEM]
    ELSE [k |-> pt_unmap_range(
                  vmmap_insert(
                    vmmap_remove_split_fields(al.k, m, a, al.area, lopage, endpage),
                    m, al.area),
                  p, lopage, endpage),
          ret |-> 0])

\* vmmap_remove, lines 739-742: the area starts before the range and ends
\* at or after its start
vmmap_remove_back(k, a, p, lopage) ==
  pt_unmap_range([k EXCEPT !.vmarea[a].vma_end = lopage], p, lopage, lopage)

\* vmmap_remove, lines 743-747: the range contains the area
vmmap_remove_whole(k, a, p) ==
  pt_unmap_range(list_remove(k, Plink(a)), p,
                 k.vmarea[a].vma_start, k.vmarea[a].vma_end)

\* vmmap_remove, lines 717-747: the body of the loop for area a
vmmap_remove_area(k, m, a, lopage, endpage) ==
  IF k.vmarea[a].vma_start >= lopage /\ k.vmarea[a].vma_end > endpage
  THEN [k |-> vmmap_remove_front(k, a, k.vmmap[m].vmm_proc, endpage), ret |-> 0]
  ELSE IF k.vmarea[a].vma_start < lopage /\ k.vmarea[a].vma_end > endpage
  THEN vmmap_remove_split(k, m, a, k.vmmap[m].vmm_proc, lopage, endpage)
  ELSE IF k.vmarea[a].vma_start < lopage /\ k.vmarea[a].vma_end >= lopage
  THEN [k |-> vmmap_remove_back(k, a, k.vmmap[m].vmm_proc, lopage), ret |-> 0]
  ELSE IF k.vmarea[a].vma_start >= lopage /\ k.vmarea[a].vma_end <= endpage
  THEN [k |-> vmmap_remove_whole(k, a, k.vmmap[m].vmm_proc), ret |-> 0]
  ELSE [k |-> k, ret |-> 0]

RECURSIVE vmmap_remove_loop(_, _, _, _, _, _, _)
vmmap_remove_loop(k, m, var, next, lopage, endpage, fuel) ==
  IF k.panic \/ var = VmmList(m) THEN [k |-> k, ret |-> 0]
  ELSE IF fuel = 0 \/ var = NULL THEN [k |-> Panic(k), ret |-> 0]
  ELSE Bind(vmmap_remove_area(k, m, AreaOf(var), lopage, endpage), LAMBDA r :
         IF r.k.panic \/ r.ret < 0 THEN r
         ELSE vmmap_remove_loop(r.k, m, next, list_next(r.k, next), lopage,
                                endpage, fuel - 1))

\* vmmap_remove(map, lopage, npages): the new state and the return value
vmmap_remove(k, m, lopage, npages) ==
  vmmap_remove_loop(k, m, k.l_next[VmmList(m)],
                    list_next(k, k.l_next[VmmList(m)]), lopage,
                    SizeT(lopage + npages), MaxWalk)

\* vmmap_clone, lines 547-551: the members of the area copied to the new one
vmmap_clone_fields(k, area, new) ==
  [k EXCEPT !.vmarea[new].vma_end = k.vmarea[area].vma_end,
            !.vmarea[new].vma_start = k.vmarea[area].vma_start,
            !.vmarea[new].vma_off = k.vmarea[area].vma_off,
            !.vmarea[new].vma_flags = k.vmarea[area].vma_flags,
            !.vmarea[new].vma_prot = k.vmarea[area].vma_prot]

\* vmmap_clone, lines 566-568: new_shadow goes to the new area, the area's
\* object is put and old_shadow takes its place
vmmap_clone_assign(k, area, new, new_shadow, old_shadow) ==
  Bind(mobj_put([k EXCEPT !.vmarea[new].vma_obj = new_shadow],
                k.vmarea[area].vma_obj),
       LAMBDA k1 : IF k1.panic THEN k1
                   ELSE [k1 EXCEPT !.vmarea[area].vma_obj = old_shadow])

\* vmmap_clone, lines 552-569: the two shadows of an area whose flags are not
\* MAP_SHARED; a failed shadow_create is unlocked before it is tested
vmmap_clone_shadows(k, area, new) ==
  IF k.vmarea[area].vma_flags # MAP_SHARED
  THEN Bind(shadow_create(k, k.vmarea[area].vma_obj), LAMBDA s1 :
         IF s1.k.panic \/ s1.obj = 0 THEN Panic(s1.k)
         ELSE Bind(shadow_create(s1.k, k.vmarea[area].vma_obj), LAMBDA s2 :
                IF s2.k.panic \/ s2.obj = 0 THEN Panic(s2.k)
                ELSE vmmap_clone_assign(s2.k, area, new, s1.obj, s2.obj)))
  ELSE k

\* vmmap_clone, lines 541-571: the body of the loop for one area
vmmap_clone_area(k, new_map, area) ==
  Bind(vmarea_alloc(k), LAMBDA al :
    IF al.area = 0 THEN [k |-> vmmap_destroy(k, new_map), stop |-> TRUE]
    ELSE [k |-> vmmap_insert(
                  vmmap_clone_shadows(vmmap_clone_fields(al.k, area, al.area),
                                      area, al.area),
                  new_map, al.area),
          stop |-> FALSE])

RECURSIVE vmmap_clone_loop(_, _, _, _)
vmmap_clone_loop(k, new_map, areas, i) ==
  IF k.panic \/ i > Len(areas) THEN [k |-> k, map |-> new_map]
  ELSE Bind(vmmap_clone_area(k, new_map, areas[i]), LAMBDA r :
         IF r.stop THEN [k |-> r.k, map |-> 0]
         ELSE vmmap_clone_loop(r.k, new_map, areas, i + 1))

\* vmmap_clone(map): the new state and the new map, 0 for NULL
vmmap_clone(k, m) ==
  Bind(vmmap_create(k), LAMBDA c :
    IF c.map = 0 THEN [k |-> k, map |-> 0]
    ELSE Bind(vmm_walk(k, m), LAMBDA w :
           IF w.fault THEN [k |-> Panic(k), map |-> 0]
           ELSE vmmap_clone_loop(
                  [c.k EXCEPT !.vmmap[c.map].vmm_proc = k.vmmap[m].vmm_proc],
                  c.map, w.areas, 1)))

\* the bytes at pf_addr of frame pf: as vmmap_write left them, else the fill
\* of the frame
pframe_bytes(k, pf) ==
  IF pf[2] \in DOMAIN k.mobj[pf[1]].bytes THEN k.mobj[pf[1]].bytes[pf[2]]
  ELSE [i \in 1 .. PAGE_SIZE |->
          IF k.mobj[pf[1]].frames[pf[2]] = ZERO THEN NUL
          ELSE k.mobj[pf[1]].frames[pf[2]]]

\* MIN(PAGE_SIZE - PAGE_OFFSET(position), count - done), lines 795 and 840
vmmap_chunk(position, count, done) ==
  Min({PAGE_SIZE - (position % PAGE_SIZE), count - done})

\* memcpy(pf_addr + off, buf + from, n), line 848
vmmap_write_memcpy(k, pf, off, buf, from, n) ==
  Bind(pframe_bytes(k, pf), LAMBDA old :
    [k EXCEPT !.mobj[pf[1]].bytes =
       (pf[2] :> [i \in 1 .. PAGE_SIZE |->
                    IF off < i /\ i <= off + n THEN buf[from + (i - off)]
                    ELSE old[i]]) @@ @])

\* vmmap_write, lines 837-852: the loop over the pages start_page up to and
\* including end_page, and the assertion that follows it
RECURSIVE vmmap_write_loop(_, _, _, _, _, _, _, _)
vmmap_write_loop(k, m, buf, count, i, end_page, done, position) ==
  IF k.panic THEN [k |-> k, ret |-> 0]
  ELSE IF i > end_page
  THEN [k |-> IF done = count THEN k ELSE Panic(k), ret |-> 0]
  ELSE Bind(vmmap_lookup(k, m, i), LAMBDA l :
         IF l.fault \/ l.area = 0 THEN [k |-> Panic(k), ret |-> 0]
         ELSE Bind(mobj_get_pframe(k, k.vmarea[l.area].vma_obj, i, TRUE),
                   LAMBDA g :
           IF g.k.panic THEN [k |-> g.k, ret |-> 0]
           ELSE Bind(vmmap_chunk(position, count, done), LAMBDA n :
                  vmmap_write_loop(
                    vmmap_write_memcpy(g.k, g.pf, position % PAGE_SIZE, buf,
                                       done, n),
                    m, buf, count, i + 1, end_page, done + n, position + n))))

\* vmmap_write(map, vaddr, buf, count): the new state and the return value
vmmap_write(k, m, vaddr, buf, count) ==
  vmmap_write_loop(k, m, buf, count, vaddr \div PAGE_SIZE,
                   (vaddr + count) \div PAGE_SIZE, 0, vaddr)

\* vmmap_read, lines 792-807: the same loop, the bytes copied to buf
RECURSIVE vmmap_read_loop(_, _, _, _, _, _, _, _)
vmmap_read_loop(k, m, buf, count, i, end_page, done, position) ==
  IF k.panic THEN [k |-> k, ret |-> 0, buf |-> buf]
  ELSE IF i > end_page
  THEN [k |-> IF done = count THEN k ELSE Panic(k), ret |-> 0, buf |-> buf]
  ELSE Bind(vmmap_lookup(k, m, i), LAMBDA l :
         IF l.fault \/ l.area = 0 THEN [k |-> Panic(k), ret |-> 0, buf |-> buf]
         ELSE Bind(mobj_get_pframe(k, k.vmarea[l.area].vma_obj, i, FALSE),
                   LAMBDA g :
           IF g.k.panic THEN [k |-> g.k, ret |-> 0, buf |-> buf]
           ELSE Bind(vmmap_chunk(position, count, done), LAMBDA n :
                  vmmap_read_loop(
                    g.k, m,
                    buf \o SubSeq(pframe_bytes(g.k, g.pf),
                                  (position % PAGE_SIZE) + 1,
                                  (position % PAGE_SIZE) + n),
                    count, i + 1, end_page, done + n, position + n))))

\* vmmap_read(map, vaddr, buf, count): the new state, the return value and
\* the bytes in buf
vmmap_read(k, m, vaddr, count) ==
  vmmap_read_loop(k, m, <<>>, count, vaddr \div PAGE_SIZE,
                  (vaddr + count) \div PAGE_SIZE, 0, vaddr)

\* vmmap_is_range_empty, lines 760-765: the two tests made of an area
is_range_empty_hit(k, a, startvfn, endvfn) ==
  \/ k.vmarea[a].vma_start < endvfn /\ k.vmarea[a].vma_start >= startvfn
  \/ k.vmarea[a].vma_end <= endvfn /\ k.vmarea[a].vma_end > startvfn

\* vmmap_is_range_empty(map, startvfn, npages): 0 at the first area one of
\* the tests is true of, 1 when the walk ends; fault when it does not end
vmmap_is_range_empty(k, m, startvfn, npages) ==
  Bind(vmm_walk(k, m), LAMBDA w :
    Bind(\E i \in 1 .. Len(w.areas) :
           is_range_empty_hit(k, w.areas[i], startvfn, SizeT(startvfn + npages)),
         LAMBDA hit : [ret |-> IF hit THEN 0 ELSE 1,
                       fault |-> ~hit /\ w.fault]))

\* vmmap_map, line 664: the condition of the removal of older mappings
vmmap_map_fixed_remove(flags, lopage) == "FIXED" \in flags /\ lopage = 0

\* vmmap_map, lines 666-673: vmmap_remove failed; mobj_local and shadow_local
\* are the local pointers mobj and shadow (mobj_put(&mobj) nulls mobj)
vmmap_map_undo(k, new, mobj_local, shadow_local, status) ==
  Bind(mobj_put(vmarea_free(k, new), mobj_local), LAMBDA e :
    [k |-> IF shadow_local # 0 THEN mobj_put(e, shadow_local) ELSE e,
     ret |-> status])

\* vmmap_map, lines 663-679
vmmap_map_finish(k, m, new, mobj_local, shadow_local, lopage, npages, flags) ==
  IF k.panic THEN [k |-> k, ret |-> 0]
  ELSE IF vmmap_map_fixed_remove(flags, lopage)
  THEN Bind(vmmap_remove(k, m, lopage, npages), LAMBDA rm :
         IF rm.k.panic THEN rm
         ELSE IF rm.ret < 0
         THEN vmmap_map_undo(rm.k, new, mobj_local, shadow_local, rm.ret)
         ELSE [k |-> vmmap_insert(rm.k, m, new), ret |-> 0])
  ELSE [k |-> vmmap_insert(k, m, new), ret |-> 0]

\* vmmap_map, lines 650-661: the shadow object of a private mapping
\* (mobj_unlock(shadow) runs before the test for a null shadow)
vmmap_map_shadow(k, m, new, mobj_local, lopage, npages, flags) ==
  IF "PRIVATE" \in flags
  THEN Bind(shadow_create(k, mobj_local), LAMBDA sh :
         IF sh.obj = 0 THEN [k |-> Panic(sh.k), ret |-> 0]
         ELSE vmmap_map_finish(
                mobj_put([sh.k EXCEPT !.vmarea[new].vma_obj = sh.obj], mobj_local),
                m, new, 0, sh.obj, lopage, npages, flags))
  ELSE vmmap_map_finish(k, m, new, mobj_local, 0, lopage, npages, flags)

\* vmmap_map, lines 627-633: the fields of the new area (off in pages)
vmmap_map_fields(k, m, new, start, lopage, npages, prot, flags, off) ==
  [k EXCEPT !.vmarea[new].vma_end = SizeT(start + npages),
            !.vmarea[new].vma_off = SizeT(SizeT(lopage + off) - lopage),
            !.vmarea[new].vma_flags = flags,
            !.vmarea[new].vma_prot = prot,
            !.vmarea[new].vma_vmmap = m,
            !.vmarea[new].vma_start = start]

\* vmmap_map, lines 623-648, for an anonymous mapping (file is NULL):
\* mobj_unlock(mobj) runs before the test for a null mobj
vmmap_map_at(k, m, start, lopage, npages, prot, flags, off) ==
  Bind(vmarea_alloc(k), LAMBDA al :
    IF al.area = 0 THEN [k |-> k, ret |-> 0 - ENOMEM]
    ELSE Bind(anon_create(vmmap_map_fields(al.k, m, al.area, start, lopage,
                                           npages, prot, flags, off)),
              LAMBDA an :
                IF an.obj = 0 THEN [k |-> Panic(an.k), ret |-> 0]
                ELSE vmmap_map_shadow(
                       [an.k EXCEPT !.vmarea[al.area].vma_obj = an.obj],
                       m, al.area, an.obj, lopage, npages, flags)))

\* vmmap_map(map, NULL, lopage, npages, prot, flags, off, dir, &new_vma):
\* the new state and the return value
vmmap_map(k, m, lopage, npages, prot, flags, off, dir) ==
  IF lopage = 0
  THEN Bind(vmmap_find_range(k, m, npages, dir), LAMBDA fr :
         IF fr.fault THEN [k |-> Panic(k), ret |-> 0]
         ELSE IF fr.ret = 0 THEN [k |-> k, ret |-> 0 - ENOMEM]
         ELSE vmmap_map_at(k, m, fr.ret, lopage, npages, prot, flags, off))
  ELSE vmmap_map_at(k, m, lopage, lopage, npages, prot, flags, off)

(***************************************************************************)
(* handle_pagefault(vaddr, cause), for the page of vaddr; cause is the set *)
(* of FAULT_WRITE / FAULT_EXEC bits.  do_exit(EFAULT) ends the process.    *)
(***************************************************************************)
do_exit(k, p, status) ==
  [k EXCEPT !.proc[p].p_state = "dead", !.proc[p].p_status = status]

\* lines 956-975: the checks that end in do_exit(EFAULT); lookup is the area
\* found, 0 for none
pagefault_refused(k, page, lookup, cause) ==
  \/ page < USER_MEM_LOW_PN
  \/ page > USER_MEM_HIGH_PN
  \/ lookup = 0
  \/ k.vmarea[lookup].vma_prot = PROT_NONE
  \/ IF "WRITE" \in cause /\ "WRITE" \notin k.vmarea[lookup].vma_prot THEN TRUE
     ELSE IF "EXEC" \in cause /\ "EXEC" \notin k.vmarea[lookup].vma_prot THEN TRUE
     ELSE "READ" \notin k.vmarea[lookup].vma_prot

\* lines 976-997: the frame is taken from the area's object and mapped
pagefault_map(k, p, page, a, forwrite) ==
  Bind(mobj_get_pframe(k, k.vmarea[a].vma_obj,
                       SizeT(k.vmarea[a].vma_off + page - k.vmarea[a].vma_start),
                       forwrite),
       LAMBDA g : IF g.k.panic THEN g.k ELSE pt_map(g.k, p, page, g.pf, forwrite))

handle_pagefault(k, p, page, cause) ==
  Bind(vmmap_lookup(k, k.proc[p].p_vmmap, page), LAMBDA l :
    IF l.fault THEN Panic(k)
    ELSE IF pagefault_refused(k, page, l.area, cause) THEN do_exit(k, p, EFAULT)
    ELSE pagefault_map(k, p, page, l.area, "WRITE" \in cause))

(***************************************************************************)
(* A user memory access: through the page table entry when it allows the   *)
(* access, else through a page fault and, if the process survives it, the  *)
(* entry the fault installed.                                              *)
(***************************************************************************)
pte_allows(k, p, page, write) ==
  /\ page \in DOMAIN k.pml4[p]
  /\ write => k.pml4[p][page].write

\* the kernel state in which the access is made, after a fault if needed
user_access(k, p, page, write) ==
  IF pte_allows(k, p, page, write) THEN k
  ELSE handle_pagefault(k, p, page, IF write THEN {"WRITE"} ELSE {})

frame_exists(k, pf) ==
  /\ pf[1] # 0
  /\ k.mobj[pf[1]].mo_type # "free"
  /\ pf[2] \in DOMAIN k.mobj[pf[1]].frames

\* the value a load finds: the frame's bytes, or leftover bytes when the
\* frame is gone
user_load_value(k, p, page) ==
  IF frame_exists(k, k.pml4[p][page].pf)
  THEN k.mobj[k.pml4[p][page].pf[1]].frames[k.pml4[p][page].pf[2]]
  ELSE "stale"

user_store_frame(k, p, page, val) ==
  IF frame_exists(k, k.pml4[p][page].pf)
  THEN [k EXCEPT !.mobj[k.pml4[p][page].pf[1]].frames[k.pml4[p][page].pf[2]] = val]
  ELSE k

(***************************************************************************)
(* vm/brk.c: do_brk.  Addresses are in bytes, pages of PAGE_SIZE bytes.    *)
(***************************************************************************)
USER_MEM_HIGH == USER_MEM_HIGH_PN * PAGE_SIZE
ADDR_TO_PN(addr) == addr \div PAGE_SIZE
PAGE_ALIGN_UP(addr) == ((addr + PAGE_SIZE - 1) \div PAGE_SIZE) * PAGE_SIZE

\* do_brk, lines 86-89 and others: p_brk is set and 0 returned
brk_set(k, p, addr) ==
  [k |-> IF k.panic THEN k ELSE [k EXCEPT !.proc[p].p_brk = PAGE_ALIGN_UP(addr)],
   ret |-> 0]

\* do_brk, lines 76-91: p_brk == p_start_brk, the heap is created
brk_create(k, p, addr, lopage, endpage) ==
  Bind(vmmap_is_range_empty(k, k.proc[p].p_vmmap, lopage, SizeT(endpage - lopage)),
       LAMBDA e :
    IF e.fault THEN [k |-> Panic(k), ret |-> 0]
    ELSE IF e.ret = 0 THEN [k |-> k, ret |-> 0 - ENOMEM]
    ELSE Bind(vmmap_map(k, k.proc[p].p_vmmap, lopage, SizeT(endpage - lopage),
                        {"READ", "WRITE"}, {"PRIVATE", "ANON", "FIXED"},
                        ADDR_TO_PN(addr % PAGE_SIZE), "HILO"),
              LAMBDA r : IF r.k.panic \/ r.ret < 0 THEN r
                         ELSE brk_set(r.k, p, addr)))

\* do_brk, lines 96-109: the heap grows
brk_grow(k, p, addr, heap, endpage) ==
  Bind(vmmap_is_range_empty(k, k.proc[p].p_vmmap, k.vmarea[heap].vma_end,
                            SizeT(endpage - k.vmarea[heap].vma_end)),
       LAMBDA e :
    IF e.fault THEN [k |-> Panic(k), ret |-> 0]
    ELSE IF e.ret = 0 THEN [k |-> k, ret |-> 0 - ENOMEM]
    ELSE brk_set([k EXCEPT !.vmarea[heap].vma_end = endpage], p, addr))

\* do_brk, lines 110-119: the heap shrinks
brk_shrink(k, p, addr, heap, endpage) ==
  brk_set(vmmap_remove(k, k.proc[p].p_vmmap, endpage,
                       SizeT(k.vmarea[heap].vma_end - endpage)).k,
          p, addr)

\* do_brk, lines 92-125: the heap exists, its area is looked up at the page
\* of the starting break
brk_resize(k, p, addr, lopage, endpage) ==
  Bind(vmmap_lookup(k, k.proc[p].p_vmmap, lopage), LAMBDA l :
    IF l.fault \/ l.area = 0 THEN [k |-> Panic(k), ret |-> 0]
    ELSE IF k.vmarea[l.area].vma_end < endpage
    THEN brk_grow(k, p, addr, l.area, endpage)
    ELSE IF k.vmarea[l.area].vma_end > endpage
    THEN brk_shrink(k, p, addr, l.area, endpage)
    ELSE [k |-> k, ret |-> 0])

\* do_brk(addr, ret) called by process p: the new state and the return value
do_brk(k, p, addr) ==
  IF addr = 0 THEN [k |-> k, ret |-> 0]
  ELSE IF addr > USER_MEM_HIGH THEN [k |-> k, ret |-> 0 - ENOMEM]
  ELSE IF addr < k.proc[p].p_start_brk THEN [k |-> k, ret |-> 0 - ENOMEM]
  ELSE IF k.proc[p].p_brk = k.proc[p].p_start_brk
  THEN brk_create(k, p, addr, ADDR_TO_PN(PAGE_ALIGN_UP(k.proc[p].p_start_brk)),
                  ADDR_TO_PN(PAGE_ALIGN_UP(addr)) + 1)
  ELSE brk_resize(k, p, addr, ADDR_TO_PN(PAGE_ALIGN_UP(k.proc[p].p_start_brk)),
                  ADDR_TO_PN(PAGE_ALIGN_UP(addr)) + 1)

(***************************************************************************)
(* proc/fork.c: do_fork, with proc_create and proc_destroy.                *)
(***************************************************************************)
FreeProcs(k) == {p \in ProcIds : k.proc[p].p_state = "free"}

\* proc_create(name): a new running process with a page table and a vmmap
\* created for it, or 0
proc_create(k) ==
  Bind(vmmap_create(k), LAMBDA vc :
    IF FreeProcs(k) = {} \/ vc.map = 0 THEN [k |-> k, proc |-> 0]
    ELSE [k |-> [vc.k EXCEPT !.proc[Min(FreeProcs(k))] =
                               [proc_none EXCEPT !.p_state = "running",
                                                 !.p_vmmap = vc.map],
                             !.vmmap[vc.map].vmm_proc = Min(FreeProcs(k)),
                             !.pml4[Min(FreeProcs(k))] = <<>>],
          proc |-> Min(FreeProcs(k))])

\* proc_destroy(proc): the vmmap is destroyed and the process freed
proc_destroy(k, c) ==
  Bind(vmmap_destroy(k, k.proc[c].p_vmmap), LAMBDA k1 :
    IF k1.panic THEN k1
    ELSE [k1 EXCEPT !.proc[c] = proc_none, !.pml4[c] = <<>>])

\* do_fork(regs) called by process p; thread_ok tells whether kthread_clone
\* gets its memory
do_fork(k, p, thread_ok) ==
  Bind(proc_create(k), LAMBDA pc :
    IF pc.proc = 0 THEN [k |-> k, ret |-> 0 - ENOMEM]
    ELSE IF ~thread_ok THEN [k |-> proc_destroy(pc.k, pc.proc), ret |-> 0 - ENOMEM]
    ELSE [k |-> pt_unmap_range(pc.k, p, USER_MEM_LOW_PN, USER_MEM_HIGH_PN),
          ret |-> pc.proc])

(***************************************************************************)
(* The state after boot: the line discipline initialised, and one running  *)
(* process that owns an empty vmmap and an empty page table.               *)
(***************************************************************************)
(***************************************************************************)
(* fs/namev.c: namev_tokenize, namev_lookup, namev_dir.  A path is the      *)
(* sequence of its characters; a pointer into it is an index, 0 for NULL.  *)
(* The tree has the root (vnode 1), /a (2) and /a/a (3), all directories.  *)
(***************************************************************************)
VnodeIds == 1 .. 3
fs_root == 1
PathChars == {"/", ".", "a"}
Paths == UNION {[1 .. n -> PathChars] : n \in 0 .. MaxPath}

\* vnode 4 is a regular file; a file_t is an index of fs.file, 0 for NULL
FileVnodes == {4}
Fds == 0 .. (NFILES - 1)
FileIds == 1 .. MaxFiles
file_none == [f_vnode |-> 0, f_pos |-> 0, f_mode |-> {}, f_refcount |-> 0]

vnode_boot(v) ==
  [vn_refcount |-> 1, vn_locked |-> FALSE, vn_len |-> 0,
   vn_mode |-> IF v \in VnodeIds THEN "S_IFDIR" ELSE "S_IFREG"]

fs_boot ==
  [vnode |-> [v \in VnodeIds \cup FileVnodes |-> vnode_boot(v)],
   linked |-> VnodeIds, fault |-> FALSE,
   file |-> [i \in FileIds |-> file_none],
   p_files |-> [fd \in Fds |-> 0],
   p_cwd |-> fs_root]

vlock(f, v) ==
  IF f.fault \/ f.vnode[v].vn_locked THEN [f EXCEPT !.fault = TRUE]
  ELSE [f EXCEPT !.vnode[v].vn_locked = TRUE]

vunlock(f, v) ==
  IF f.fault \/ ~f.vnode[v].vn_locked THEN [f EXCEPT !.fault = TRUE]
  ELSE [f EXCEPT !.vnode[v].vn_locked = FALSE]

vref(f, v) == [f EXCEPT !.vnode[v].vn_refcount = @ + 1]

vput(f, v) ==
  IF f.fault \/ f.vnode[v].vn_refcount = 0 THEN [f EXCEPT !.fault = TRUE]
  ELSE [f EXCEPT !.vnode[v].vn_refcount = @ - 1]

vput_locked(f, v) == vput(vunlock(f, v), v)

\* the lookup operation of a directory: ".", "..", an entry, or -ENOENT
fs_parent(v) == IF v = fs_root THEN fs_root ELSE v - 1

fs_child(f, dir) == IF dir + 1 \in f.linked THEN dir + 1 ELSE 0

fs_lookup_target(f, dir, name) ==
  IF name = <<".">> THEN dir
  ELSE IF name = <<".", ".">> THEN fs_parent(dir)
  ELSE IF name = <<"a">> THEN fs_child(f, dir)
  ELSE 0

vn_lookup(f, dir, name) ==
  Bind(fs_lookup_target(f, dir, name), LAMBDA v :
    IF v = 0 THEN [f |-> f, ret |-> 0 - ENOENT, res |-> 0]
    ELSE [f |-> vref(f, v), ret |-> 0, res |-> v])

\* namev_lookup(dir, name, namelen, res_vnode)
namev_lookup(f, dir, name) ==
  IF f.vnode[dir].vn_mode # "S_IFDIR" THEN [f |-> f, ret |-> 0 - ENOTDIR, res |-> 0]
  ELSE IF Len(name) = 0 THEN [f |-> vref(f, dir), ret |-> 0, res |-> dir]
  ELSE vn_lookup(f, dir, name)

\* the index of the first character from i on that is (slash) or is not
\* (~slash) a '/', Len(path) + 1 for the terminating NUL
RECURSIVE path_scan(_, _, _)
path_scan(path, i, slash) ==
  IF i > Len(path) \/ ((path[i] = "/") = slash) THEN i
  ELSE path_scan(path, i + 1, slash)

\* namev_tokenize(&search, &len): the token's start and length and the new
\* value of search
namev_tokenize(path, search) ==
  IF search = 0 THEN [begin |-> 0, len |-> 0, search |-> 0]
  ELSE Bind(path_scan(path, search, FALSE), LAMBDA b :
         Bind(path_scan(path, b, TRUE), LAMBDA e :
           [begin |-> b, len |-> e - b,
            search |-> IF e > Len(path) THEN 0 ELSE e]))

\* oops_all_slashes(path), path pointing at index i
oops_all_slashes(path, i) == \A j \in i .. Len(path) : path[j] = "/"

\* the token as the caller sees it: name and namelen
namev_name(path, t) == SubSeq(path, t.begin, t.begin + t.len - 1)

namev_done(f, res, path, t) ==
  [f |-> vunlock(f, res), ret |-> 0, dir |-> res, name |-> namev_name(path, t)]

\* namev_dir, lines 238-275: the loop; start is locked and referenced
RECURSIVE namev_dir_loop(_, _, _, _, _)
namev_dir_loop(f, path, start, res, search) ==
  Bind(namev_tokenize(path, search), LAMBDA t :
    IF t.len = 1 /\ path[t.begin] = "."
    THEN IF t.search = 0 THEN namev_done(f, start, path, t)
         ELSE namev_dir_loop(f, path, start, start, t.search)
    ELSE IF t.search = 0 \/ oops_all_slashes(path, t.search)
    THEN namev_done(f, res, path, t)
    ELSE Bind(namev_lookup(f, start, namev_name(path, t)), LAMBDA lk :
           IF lk.ret < 0
           THEN [f |-> vput_locked(lk.f, start), ret |-> lk.ret, dir |-> 0,
                 name |-> <<>>]
           ELSE namev_dir_loop(vlock(vput_locked(lk.f, start), lk.res), path,
                               lk.res, lk.res, t.search)))

\* namev_dir(base, path, &res_vnode, &name, &namelen)
namev_dir(f, base, path) ==
  IF Len(path) = 0
  THEN [f |-> f, ret |-> 0 - EINVAL, dir |-> 0, name |-> <<>>]
  ELSE Bind(IF path[1] = "/" THEN fs_root ELSE base, LAMBDA start :
         namev_dir_loop(vref(vlock(f, start), start), path, start, start, 1))

(***************************************************************************)
(* fs/vfs_syscall.c: do_rmdir.  The rmdir operation of a directory removes *)
(* an entry that is an empty directory.                                    *)
(***************************************************************************)
vn_rmdir(f, dir, name) ==
  Bind(IF name = <<"a">> THEN fs_child(f, dir) ELSE 0, LAMBDA v :
    IF v = 0 THEN [f |-> f, ret |-> 0 - ENOENT]
    ELSE IF f.vnode[v].vn_mode # "S_IFDIR" THEN [f |-> f, ret |-> 0 - ENOTDIR]
    ELSE IF fs_child(f, v) # 0 THEN [f |-> f, ret |-> 0 - ENOTEMPTY]
    ELSE [f |-> [f EXCEPT !.linked = @ \ {v}], ret |-> 0])

\* path[i]; path[-1], the byte in memory before the string, is byte
path_at(path, i, byte) == IF i = 0 THEN byte ELSE path[i]

\* do_rmdir, lines 299-305: the path ends with '.'
rmdir_dot(f, path, byte, nd) ==
  [f |-> vput(f, nd.dir),
   ret |-> IF path_at(path, Len(path) - 1, byte) = "."
           THEN 0 - ENOTEMPTY ELSE 0 - EINVAL,
   called |-> <<>>]

\* do_rmdir, lines 306-312: the rmdir operation of the locked directory
rmdir_op(f, nd) ==
  IF f.vnode[nd.dir].vn_mode # "S_IFDIR"
  THEN [f |-> vput_locked(vlock(f, nd.dir), nd.dir), ret |-> 0 - ENOTDIR,
        called |-> <<>>]
  ELSE Bind(vn_rmdir(vlock(f, nd.dir), nd.dir, nd.name), LAMBDA r :
         [f |-> vput_locked(r.f, nd.dir), ret |-> r.ret, called |-> <<nd.name>>])

\* do_rmdir(path) of a process whose working directory is cwd
do_rmdir(f, cwd, path, byte) ==
  Bind(namev_dir(f, cwd, path), LAMBDA nd :
    IF nd.ret < 0 THEN [f |-> nd.f, ret |-> nd.ret, called |-> <<>>]
    ELSE IF path[Len(path)] = "." THEN rmdir_dot(nd.f, path, byte, nd)
    ELSE rmdir_op(nd.f, nd))

(***************************************************************************)
(* fs/vfs_syscall.c: do_read, do_write, do_close, do_dup, do_dup2,         *)
(* do_lseek.  f is the file system record; curproc->p_files is f.p_files.  *)
(***************************************************************************)
FMODE_READ == "READ"
FMODE_WRITE == "WRITE"
FMODE_APPEND == "APPEND"
SEEK_SET == "SEEK_SET"
SEEK_CUR == "SEEK_CUR"
SEEK_END == "SEEK_END"

\* (int) x
to_int(x) == ((x + INT_MOD \div 2) % INT_MOD) - INT_MOD \div 2

\* fget(fd): the file of an open descriptor with one more reference, or NULL
fget(f, fd) ==
  IF fd \notin Fds \/ f.p_files[fd] = 0 THEN [f |-> f, file |-> 0]
  ELSE [f |-> [f EXCEPT !.file[f.p_files[fd]].f_refcount = @ + 1],
        file |-> f.p_files[fd]]

\* fput(&file): drops a reference; the last one releases the vnode and the file
fput(f, file) ==
  IF f.file[file].f_refcount > 1
  THEN [f EXCEPT !.file[file].f_refcount = @ - 1]
  ELSE [vput(f, f.file[file].f_vnode) EXCEPT !.file[file] = file_none]

\* get_empty_fd(&fd): the lowest free descriptor, or -EMFILE
get_empty_fd(f) ==
  IF \A fd \in Fds : f.p_files[fd] # 0 THEN [ret |-> 0 - EMFILE, fd |-> 0]
  ELSE [ret |-> 0, fd |-> CHOOSE fd \in Fds :
                     /\ f.p_files[fd] = 0
                     /\ \A g \in Fds : g < fd => f.p_files[g] # 0]

\* the read and write operations of a regular file; fail: the operation
\* reports an error
vn_read(f, v, pos, len, fail) ==
  IF fail THEN 0 - ENOMEM
  ELSE IF pos >= f.vnode[v].vn_len THEN 0
  ELSE Min({len, f.vnode[v].vn_len - pos})

vn_write_len(f, v, pos, len) ==
  IF pos + len > f.vnode[v].vn_len THEN pos + len ELSE f.vnode[v].vn_len

vn_write(f, v, pos, len, fail) ==
  IF fail \/ pos + len > MaxLen THEN [f |-> f, ret |-> 0 - ENOMEM]
  ELSE [f |-> [f EXCEPT !.vnode[v].vn_len = vn_write_len(f, v, pos, len)],
        ret |-> len]

\* do_read, lines 36-52: the vnode is known
read_vnode(f, file, node, len, fail) ==
  IF f.vnode[node].vn_mode = "S_IFDIR"
  THEN [f |-> vunlock(vlock(f, node), node), ret |-> 0 - EISDIR]
  ELSE IF FMODE_READ \notin f.file[file].f_mode
  THEN [f |-> vunlock(vlock(f, node), node), ret |-> 0 - EBADF]
  ELSE Bind(vn_read(f, node, f.file[file].f_pos, len, fail), LAMBDA num_read :
         IF num_read < 0
         THEN [f |-> vunlock(vlock(f, node), node), ret |-> num_read]
         ELSE [f |-> [vunlock(vlock(f, node), node)
                        EXCEPT !.file[file].f_pos = @ + num_read],
               ret |-> num_read])

do_read(f, fd, len, fail) ==
  IF fd \notin Fds THEN [f |-> f, ret |-> 0 - EBADF]
  ELSE IF f.p_files[fd] = 0 THEN [f |-> f, ret |-> 0 - EBADF]
  ELSE read_vnode(f, f.p_files[fd], f.file[f.p_files[fd]].f_vnode, len, fail)

write_append_never(f, file, node) == f

\* do_write, lines 83-85: FMODE_APPEND moves the position to the length
write_append(f, file, node) ==
  IF FMODE_APPEND \in f.file[file].f_mode
  THEN [f EXCEPT !.file[file].f_pos = f.vnode[node].vn_len]
  ELSE f

\* do_write, lines 86-93: the write operation at f_pos
write_vnode(f, file, node, len, fail) ==
  Bind(vn_write(f, node, f.file[file].f_pos, len, fail), LAMBDA w :
    IF w.ret < 0 THEN [f |-> vunlock(w.f, node), ret |-> w.ret]
    ELSE [f |-> vunlock([w.f EXCEPT !.file[file].f_pos = @ + w.ret], node),
          ret |-> w.ret])

do_write(f, fd, len, fail) ==
  IF fd \notin Fds THEN [f |-> f, ret |-> 0 - EBADF]
  ELSE IF f.p_files[fd] = 0 THEN [f |-> f, ret |-> 0 - EBADF]
  ELSE IF FMODE_WRITE \notin f.file[f.p_files[fd]].f_mode
  THEN [f |-> f, ret |-> 0 - EBADF]
  ELSE Bind(f.p_files[fd], LAMBDA file :
         Bind(f.file[file].f_vnode, LAMBDA node :
           write_vnode(write_append(vlock(f, node), file, node), file, node,
                       len, fail)))

do_close(f, fd) ==
  IF fd \notin Fds THEN [f |-> f, ret |-> 0 - EBADF]
  ELSE IF f.p_files[fd] = 0 THEN [f |-> f, ret |-> 0 - EBADF]
  ELSE [f |-> [fput(f, f.p_files[fd]) EXCEPT !.p_files[fd] = 0], ret |-> 0]

\* do_dup, lines 139-148: a descriptor new_fd was found
dup_file(f, fd, new_fd) ==
  Bind(fget(f, fd), LAMBDA g :
    IF g.file = 0 THEN [f |-> g.f, ret |-> 0 - EBADF]
    ELSE IF g.f.file[g.file].f_mode = {}
    THEN [f |-> fput(g.f, g.file), ret |-> 0 - EBADF]
    ELSE [f |-> [g.f EXCEPT !.p_files[new_fd] = g.file], ret |-> new_fd])

do_dup(f, fd) ==
  IF fd \notin Fds THEN [f |-> f, ret |-> 0 - EBADF]
  ELSE Bind(get_empty_fd(f), LAMBDA e :
         IF e.ret < 0 THEN [f |-> f, ret |-> e.ret]
         ELSE dup_file(f, fd, e.fd))

\* do_dup2, lines 174-182: file is referenced; mid is the state after the
\* close of nfd
dup2_share(f, file, nfd) ==
  IF f.p_files[nfd] # 0
  THEN Bind(do_close(f, nfd), LAMBDA c :
         IF c.ret < 0 THEN [f |-> fput(c.f, file), ret |-> c.ret, mid |-> c.f]
         ELSE [f |-> [c.f EXCEPT !.p_files[nfd] = file], ret |-> nfd,
               mid |-> c.f])
  ELSE [f |-> [f EXCEPT !.p_files[nfd] = file], ret |-> nfd, mid |-> f]

do_dup2_unreferenced(f, ofd, nfd) ==
  IF ofd \notin Fds \/ nfd \notin Fds \/ f.p_files[ofd] = 0
  THEN [f |-> f, ret |-> 0 - EBADF, mid |-> f]
  ELSE dup2_share(f, f.p_files[ofd], nfd)

do_dup2(f, ofd, nfd) ==
  IF ofd \notin Fds \/ nfd \notin Fds THEN [f |-> f, ret |-> 0 - EBADF, mid |-> f]
  ELSE Bind(fget(f, ofd), LAMBDA g :
         IF g.file = 0 THEN [f |-> g.f, ret |-> 0 - EBADF, mid |-> g.f]
         ELSE IF g.f.file[g.file].f_mode = {}
         THEN [f |-> fput(g.f, g.file), ret |-> 0 - EBADF, mid |-> g.f]
         ELSE dup2_share(g.f, g.file, nfd))

\* do_lseek, lines 567-588: the descriptor is open
lseek_cur(f, file, offset) ==
  IF to_int(f.file[file].f_pos) + offset < 0 THEN [f |-> f, ret |-> 0 - EINVAL]
  ELSE [f |-> [f EXCEPT !.file[file].f_pos = @ + offset],
        ret |-> f.file[file].f_pos + offset]

lseek_set(f, file, offset) ==
  IF offset < 0 THEN [f |-> f, ret |-> 0 - EINVAL]
  ELSE [f |-> [f EXCEPT !.file[file].f_pos = offset], ret |-> offset]

lseek_end(f, file, node, offset) ==
  IF to_int(f.vnode[node].vn_len) + offset < 0
  THEN [f |-> vunlock(vlock(f, node), node), ret |-> 0 - EINVAL]
  ELSE [f |-> [vunlock(vlock(f, node), node)
                 EXCEPT !.file[file].f_pos = f.vnode[node].vn_len + offset],
        ret |-> f.vnode[node].vn_len + offset]

do_lseek(f, fd, offset, whence) ==
  IF fd \notin Fds THEN [f |-> f, ret |-> 0 - EBADF]
  ELSE IF whence \notin {SEEK_SET, SEEK_CUR, SEEK_END}
  THEN [f |-> f, ret |-> 0 - EINVAL]
  ELSE IF f.p_files[fd] = 0 THEN [f |-> f, ret |-> 0 - EBADF]
  ELSE IF whence = SEEK_CUR THEN lseek_cur(f, f.p_files[fd], offset)
  ELSE IF whence = SEEK_SET THEN lseek_set(f, f.p_files[fd], offset)
  ELSE lseek_end(f, f.p_files[fd], f.file[f.p_files[fd]].f_vnode, offset)

(***************************************************************************)
(* drivers/memdevs.c: the null and the zero device.  An operation of a     *)
(* chardev_ops_t is the name of its function, "NULL" for a null pointer.   *)
(***************************************************************************)
MEM_NULL_DEVID == "MEM_NULL_DEVID"
MEM_ZERO_DEVID == "MEM_ZERO_DEVID"
DevIds == {MEM_NULL_DEVID, MEM_ZERO_DEVID}
\* the character '0'
CHAR_0 == 48
Bytes == {0, CHAR_0, 255}
Bufs == [1 .. MaxBuf -> Bytes]

chardev_none == [cd_id |-> "NULL", cd_ops |-> "NULL"]

dev_boot == [chardevs |-> [id \in DevIds |-> chardev_none],
             buf |-> [i \in 1 .. MaxBuf |-> 0]]

null_dev_ops == [read |-> "null_read", write |-> "null_write", mmap |-> "NULL"]

zero_dev_ops == [read |-> "zero_read", write |-> "null_write",
                 mmap |-> "zero_mmap"]

\* chardev_register(dev)
chardev_register(d, cd) == [d EXCEPT !.chardevs[cd.cd_id] = cd]

\* chardev_lookup(id)
chardev_lookup(d, id) == d.chardevs[id]

memdevs_init(d) ==
  chardev_register(
    chardev_register(d,
      [cd_id |-> MEM_NULL_DEVID,
       cd_ops |-> [write |-> "null_write", read |-> "null_read",
                   mmap |-> "zero_mmap"]]),
    [cd_id |-> MEM_ZERO_DEVID,
     cd_ops |-> [write |-> "null_write", read |-> "zero_read",
                 mmap |-> "zero_mmap"]])

null_read(buf, count) == [buf |-> buf, ret |-> 0]

null_write(count) == count

zero_read(buf, count) ==
  [buf |-> [i \in 1 .. Len(buf) |-> IF i <= count THEN CHAR_0 ELSE buf[i]],
   ret |-> count]

\* zero_mmap: not implemented, gives no object
zero_mmap == [ret |-> 0 - 1, mobj |-> 0]

\* the calls through cd_ops of a registered device
cd_read(cd, buf, count) ==
  IF cd.cd_ops.read = "zero_read" THEN zero_read(buf, count)
  ELSE null_read(buf, count)

cd_write(cd, count) == null_write(count)

cd_mmap(cd) ==
  IF cd.cd_ops.mmap = "NULL" THEN [ret |-> 0 - ENODEV, mobj |-> 0]
  ELSE zero_mmap

(***************************************************************************)
(* vm/shadow.c: shadow_collapse, and vm/mmap.c: vmmap_collapse.            *)
(***************************************************************************)
\* shadow_collapse, lines 103-114: every frame of current leaves current's
\* list; it joins o's list unless o has a frame of that page
collapse_frames(k, o, current) ==
  [k EXCEPT !.mobj[o].frames = @ @@ k.mobj[current].frames,
            !.mobj[o].bytes = @ @@ k.mobj[current].bytes,
            !.mobj[current].frames = <<>>,
            !.mobj[current].bytes = <<>>]

\* shadow_collapse, line 118: shadow->shadowed is read after mobj_put has
\* destroyed the object; stale: the memory still holds the old pointer, else
\* it reads as a null pointer
collapse_next(k, current, stale) == IF stale THEN k.mobj[current].shadowed ELSE 0

\* shadow_collapse, lines 102-119: the loop; an object that was destroyed is
\* not to be looked at
RECURSIVE shadow_collapse_loop(_, _, _, _, _)
shadow_collapse_loop(k, o, current, stale, fuel) ==
  IF k.panic \/ current = 0 THEN k
  ELSE IF fuel = 0 \/ k.mobj[current].mo_type = "free" THEN Panic(k)
  ELSE IF k.mobj[current].mo_type # "shadow" THEN k
  ELSE Bind(collapse_frames(k, o, current), LAMBDA k1 :
         IF k1.mobj[current].mo_refcount # 1 THEN Panic(k1)
         ELSE shadow_collapse_loop(mobj_put(k1, current), o,
                                   collapse_next(k, current, stale), stale,
                                   fuel - 1))

shadow_collapse(k, o, stale) ==
  Bind(shadow_collapse_loop(k, o, k.mobj[o].shadowed, stale, MaxMobjs),
       LAMBDA k1 :
         IF k1.panic THEN k1
         ELSE [k1 EXCEPT !.mobj[o].shadowed = k1.mobj[o].bottom_mobj])

\* vmmap_collapse(map): shadow_collapse of the object of every area that has
\* a shadow object
RECURSIVE vmmap_collapse_loop(_, _, _, _)
vmmap_collapse_loop(k, areas, i, stale) ==
  IF k.panic \/ i > Len(areas) THEN k
  ELSE IF k.vmarea[areas[i]].vma_obj = 0 THEN Panic(k)
  ELSE IF k.mobj[k.vmarea[areas[i]].vma_obj].mo_type = "shadow"
  THEN vmmap_collapse_loop(
         shadow_collapse(k, k.vmarea[areas[i]].vma_obj, stale),
         areas, i + 1, stale)
  ELSE vmmap_collapse_loop(k, areas, i + 1, stale)

vmmap_collapse(k, m, stale) == vmmap_collapse_loop(k, vmm_areas(k, m), 1, stale)

(***************************************************************************)
(* fs/namev.c: namev_open, namev_resolve; fs/vfs_syscall.c: do_mknod,      *)
(* do_mkdir, do_unlink, do_link, do_rename, do_chdir, do_stat.  The        *)
(* operations of a directory work on the tree of the model: an entry "a"   *)
(* of a directory that has a vnode left for it can be made and removed.    *)
(***************************************************************************)
\* the mknod and the mkdir operation: a new entry name of directory dir with
\* a vnode of the given mode, returned with a reference
vn_create(f, dir, name, mode) ==
  IF name = <<"a">> /\ dir + 1 \in VnodeIds /\ dir + 1 \notin f.linked
  THEN [f |-> vref([f EXCEPT !.linked = @ \cup {dir + 1},
                             !.vnode[dir + 1].vn_mode = mode,
                             !.vnode[dir + 1].vn_len = 0], dir + 1),
        ret |-> 0, res |-> dir + 1]
  ELSE [f |-> f, ret |-> 0 - ENOMEM, res |-> 0]

\* the unlink operation: the entry of a file goes
vn_unlink(f, dir, name) ==
  Bind(IF name = <<"a">> THEN fs_child(f, dir) ELSE 0, LAMBDA v :
    IF v = 0 THEN [f |-> f, ret |-> 0 - ENOENT]
    ELSE [f |-> [f EXCEPT !.linked = @ \ {v}], ret |-> 0])

\* the link and the rename operation take no reference and no lock; the
\* entry they add or move is not followed in the tree of the model
vn_link(f, dir, name, old) ==
  IF fs_lookup_target(f, dir, name) # 0 THEN 0 - EEXIST ELSE 0

vn_rename(f, olddir, name, newdir, newname) ==
  IF fs_lookup_target(f, olddir, name) = 0 THEN 0 - ENOENT ELSE 0

\* vlock_in_order(a, b), vunlock_in_order(a, b): the vnode with the smaller
\* number first; one vnode is locked once
vlock_in_order(f, a, b) ==
  IF a = b THEN vlock(f, a)
  ELSE IF a < b THEN vlock(vlock(f, a), b)
  ELSE vlock(vlock(f, b), a)

vunlock_in_order(f, a, b) ==
  IF a = b THEN vunlock(f, a)
  ELSE vunlock(vunlock(f, a), b)

\* namev_open, lines 326-344: container is locked
namev_open_lookup(f, container, name, path, creat, mode) ==
  Bind(namev_lookup(f, container, name), LAMBDA lk :
    IF lk.ret = 0 - ENOENT /\ creat
    THEN Bind(vn_create(lk.f, container, name, mode), LAMBDA c :
           [f |-> vput_locked(c.f, container), ret |-> c.ret, res |-> c.res])
    ELSE IF lk.ret < 0
    THEN [f |-> vput_locked(lk.f, container), ret |-> lk.ret, res |-> 0]
    ELSE IF lk.f.vnode[lk.res].vn_mode # "S_IFDIR" /\ path[Len(path)] = "/"
    THEN [f |-> vput_locked(vput(lk.f, lk.res), container),
          ret |-> 0 - ENOTDIR, res |-> 0]
    ELSE [f |-> vput_locked(lk.f, container), ret |-> lk.ret, res |-> lk.res])

\* namev_open(base, path, oflags, mode, devid, res_vnode); creat: O_CREAT is
\* in oflags
namev_open(f, base, path, creat, mode) ==
  IF path = <<"/">> THEN [f |-> vref(f, fs_root), ret |-> 0, res |-> fs_root]
  ELSE Bind(namev_dir(f, base, path), LAMBDA nd :
         IF nd.ret < 0 THEN [f |-> nd.f, ret |-> nd.ret, res |-> 0]
         ELSE IF Len(nd.name) > NAME_LEN
         THEN [f |-> vput(nd.f, nd.dir), ret |-> 0 - ENAMETOOLONG, res |-> 0]
         ELSE namev_open_lookup(vlock(nd.f, nd.dir), nd.dir, nd.name, path,
                                creat, mode))

\* namev_resolve(base, path, res_vnode)
namev_resolve(f, base, path) == namev_open(f, base, path, FALSE, "0")

\* do_mknod(path, mode, devid)
do_mknod(f, path, mode) ==
  IF mode \notin {"S_IFCHR", "S_IFBLK", "S_IFREG"} THEN [f |-> f, ret |-> 0 - EINVAL]
  ELSE Bind(namev_open(f, f.p_cwd, path, TRUE, mode), LAMBDA o :
         IF o.ret < 0 THEN [f |-> o.f, ret |-> o.ret]
         ELSE [f |-> vput(o.f, o.res), ret |-> 0])

\* do_mkdir, lines 251-269: res_vnode is locked
mkdir_lookup(f, res_vnode, name) ==
  Bind(namev_lookup(f, res_vnode, name), LAMBDA lk :
    IF lk.ret >= 0
    THEN [f |-> vput_locked(vput(lk.f, lk.res), res_vnode), ret |-> 0 - EEXIST]
    ELSE IF lk.ret # 0 - ENOENT
    THEN [f |-> vput_locked(lk.f, res_vnode), ret |-> lk.ret]
    ELSE Bind(vn_create(lk.f, res_vnode, name, "S_IFDIR"), LAMBDA c :
           IF c.ret < 0 THEN [f |-> vput_locked(c.f, res_vnode), ret |-> c.ret]
           ELSE [f |-> vput(vput_locked(c.f, res_vnode), c.res), ret |-> 0]))

\* do_mkdir(path): the length of the name is tested before the status
do_mkdir(f, path) ==
  Bind(namev_dir(f, f.p_cwd, path), LAMBDA nd :
    IF Len(nd.name) > NAME_LEN
    THEN [f |-> vput(nd.f, nd.dir), ret |-> 0 - ENAMETOOLONG]
    ELSE IF nd.ret < 0 THEN [f |-> nd.f, ret |-> nd.ret]
    ELSE mkdir_lookup(vlock(nd.f, nd.dir), nd.dir, nd.name))

\* do_unlink, lines 347-351 with the vput of found left out
unlink_directory_held(f, res, found) ==
  [f |-> vput_locked(f, res), ret |-> 0 - EPERM]

\* do_unlink, lines 347-351: the entry found is a directory
unlink_directory(f, res, found) ==
  [f |-> vput(vput_locked(f, res), found), ret |-> 0 - EPERM]

\* do_unlink, lines 340-357: res is locked
unlink_lookup(f, res, name) ==
  Bind(namev_lookup(f, res, name), LAMBDA lk :
    IF lk.ret < 0 THEN [f |-> vput_locked(lk.f, res), ret |-> lk.ret]
    ELSE IF lk.f.vnode[lk.res].vn_mode = "S_IFDIR"
    THEN unlink_directory(lk.f, res, lk.res)
    ELSE Bind(vn_unlink(lk.f, res, name), LAMBDA u :
           [f |-> vput_locked(vput(u.f, lk.res), res), ret |-> u.ret]))

\* do_unlink(path)
do_unlink(f, path) ==
  Bind(namev_dir(f, f.p_cwd, path), LAMBDA nd :
    IF nd.ret < 0 THEN [f |-> nd.f, ret |-> nd.ret]
    ELSE IF nd.f.vnode[nd.dir].vn_mode # "S_IFDIR"
    THEN [f |-> vput(nd.f, nd.dir), ret |-> 0 - ENOTDIR]
    ELSE unlink_lookup(vlock(nd.f, nd.dir), nd.dir, nd.name))

\* do_link, lines 388-403: old_res is referenced
link_to(f, old_res, newpath) ==
  Bind(namev_dir(f, f.p_cwd, newpath), LAMBDA nd :
    IF nd.ret < 0 THEN [f |-> vput(nd.f, old_res), ret |-> nd.ret]
    ELSE IF nd.f.vnode[nd.dir].vn_mode # "S_IFDIR"
    THEN [f |-> vput(vput(nd.f, old_res), nd.dir), ret |-> 0 - ENOTDIR]
    ELSE [f |-> vput(vput(vunlock_in_order(
                            vlock_in_order(nd.f, old_res, nd.dir),
                            old_res, nd.dir),
                          old_res),
                     nd.dir),
          ret |-> vn_link(nd.f, nd.dir, nd.name, old_res)])

\* do_link(oldpath, newpath)
do_link(f, oldpath, newpath) ==
  Bind(namev_resolve(f, f.p_cwd, oldpath), LAMBDA o :
    IF o.ret < 0 THEN [f |-> o.f, ret |-> o.ret]
    ELSE IF o.f.vnode[o.res].vn_mode = "S_IFDIR"
    THEN [f |-> vput(o.f, o.res), ret |-> 0 - EPERM]
    ELSE link_to(o.f, o.res, newpath))

\* do_rename, lines 456-469: old_res is referenced
rename_to(f, old_res, name, newpath) ==
  Bind(namev_dir(f, f.p_cwd, newpath), LAMBDA nd :
    IF nd.ret < 0 THEN [f |-> vput(nd.f, old_res), ret |-> nd.ret]
    ELSE IF nd.f.vnode[nd.dir].vn_mode # "S_IFDIR"
    THEN [f |-> vput(vput(nd.f, old_res), nd.dir), ret |-> 0 - ENOTDIR]
    ELSE [f |-> vput(vput(vunlock_in_order(
                            vlock_in_order(nd.f, old_res, nd.dir),
                            old_res, nd.dir),
                          old_res),
                     nd.dir),
          ret |-> vn_rename(nd.f, old_res, name, nd.dir, nd.name)])

\* do_rename(oldpath, newpath)
do_rename(f, oldpath, newpath) ==
  Bind(namev_dir(f, f.p_cwd, oldpath), LAMBDA nd :
    IF nd.ret < 0 THEN [f |-> nd.f, ret |-> nd.ret]
    ELSE IF nd.f.vnode[nd.dir].vn_mode # "S_IFDIR"
    THEN [f |-> vput(nd.f, nd.dir), ret |-> 0 - ENOTDIR]
    ELSE rename_to(nd.f, nd.dir, nd.name, newpath))

\* do_chdir(path)
do_chdir(f, path) ==
  Bind(namev_resolve(f, f.p_cwd, path), LAMBDA o :
    IF o.ret < 0 THEN [f |-> o.f, ret |-> o.ret]
    ELSE IF o.f.vnode[o.res].vn_mode # "S_IFDIR"
    THEN [f |-> vput(o.f, o.res), ret |-> 0 - ENOTDIR]
    ELSE [f |-> [vput(o.f, o.f.p_cwd) EXCEPT !.p_cwd = o.res], ret |-> 0])

\* do_stat(path, buf): the stat operation succeeds
do_stat(f, path) ==
  Bind(namev_resolve(f, f.p_cwd, path), LAMBDA o :
    IF o.ret < 0 THEN [f |-> o.f, ret |-> o.ret]
    ELSE [f |-> vput(o.f, o.res), ret |-> 0])

(***************************************************************************)
(* fs/vfs_syscall.c: do_getdent.  The readdir operation of a directory     *)
(* gives the entry at a position: ".", ".." and the entries of the tree.   *)
(***************************************************************************)
vn_readdir(f, v, pos) ==
  IF pos < (IF fs_child(f, v) # 0 THEN 3 ELSE 2) * DIRENT_SIZE
  THEN DIRENT_SIZE ELSE 0

\* do_getdent, lines 523-538 with the fput of line 525 left out
getdent_file_held(f, file, vnode) ==
  IF f.vnode[vnode].vn_mode # "S_IFDIR" THEN [f |-> f, ret |-> 0 - ENOTDIR]
  ELSE Bind(vn_readdir(vlock(f, vnode), vnode, f.file[file].f_pos), LAMBDA read :
         IF read = 0
         THEN [f |-> fput(vunlock(vlock(f, vnode), vnode), file), ret |-> 0]
         ELSE [f |-> fput([vunlock(vlock(f, vnode), vnode)
                             EXCEPT !.file[file].f_pos = @ + read], file),
               ret |-> DIRENT_SIZE])

\* do_getdent, lines 523-538: file is referenced
getdent_file(f, file, vnode) ==
  IF f.vnode[vnode].vn_mode # "S_IFDIR"
  THEN [f |-> fput(f, file), ret |-> 0 - ENOTDIR]
  ELSE Bind(vn_readdir(vlock(f, vnode), vnode, f.file[file].f_pos), LAMBDA read :
         IF read = 0
         THEN [f |-> fput(vunlock(vlock(f, vnode), vnode), file), ret |-> 0]
         ELSE [f |-> fput([vunlock(vlock(f, vnode), vnode)
                             EXCEPT !.file[file].f_pos = @ + read], file),
               ret |-> DIRENT_SIZE])

\* do_getdent(fd, dirp)
do_getdent(f, fd) ==
  IF fd \notin Fds THEN [f |-> f, ret |-> 0 - EBADF]
  ELSE Bind(fget(f, fd), LAMBDA g :
         IF g.file = 0 THEN [f |-> g.f, ret |-> 0 - EBADF]
         ELSE getdent_file(g.f, g.file, g.f.file[g.file].f_vnode))

(***************************************************************************)
(* The mobj mutexes.  The calls one handler makes on them, in order, as a  *)
(* sequence of <<"lock", o>> and <<"unlock", o>>, and the mutexes the      *)
(* running thread holds as the calls are made.                             *)
(***************************************************************************)
Lock(o) == <<"lock", o>>

Unlock(o) == <<"unlock", o>>

\* no mutex held, no misuse so far
mutex_none == [held |-> {}, bad |-> "none"]

\* mobj_lock(o): kmutex_lock asserts that the caller is not the holder
mobj_lock(h, o) ==
  IF h.bad # "none" THEN h
  ELSE IF o = 0 THEN [h EXCEPT !.bad = "lock of null"]
  ELSE IF o \in h.held THEN [h EXCEPT !.bad = "lock of held"]
  ELSE [h EXCEPT !.held = @ \cup {o}]

\* mobj_unlock(o): kmutex_unlock asserts that the caller is the holder
mobj_unlock(h, o) ==
  IF h.bad # "none" THEN h
  ELSE IF o = 0 THEN [h EXCEPT !.bad = "unlock of null"]
  ELSE IF o \notin h.held THEN [h EXCEPT !.bad = "unlock of unheld"]
  ELSE [h EXCEPT !.held = @ \ {o}]

\* the calls of a sequence made one after the other
RECURSIVE mutex_run(_, _)
mutex_run(h, calls) ==
  IF calls = <<>> THEN h
  ELSE mutex_run(IF Head(calls)[1] = "lock" THEN mobj_lock(h, Head(calls)[2])
                 ELSE mobj_unlock(h, Head(calls)[2]),
                 Tail(calls))

\* anon_create and shadow_create (shadow.c, line 78) return the new object
\* locked, and lock nothing when the allocation fails
create_mutex(obj) == IF obj = 0 THEN <<>> ELSE <<Lock(obj)>>

\* vmmap_map, lines 635-661, for an anonymous mapping: the new object is
\* unlocked before it is tested, and so is the shadow of a private mapping
vmmap_map_at_mutex(k, flags) ==
  IF vmarea_alloc(k).area = 0 THEN <<>>
  ELSE Bind(anon_create(k), LAMBDA an :
         create_mutex(an.obj) \o <<Unlock(an.obj)>> \o
         (IF an.obj # 0 /\ "PRIVATE" \in flags
          THEN Bind(shadow_create(an.k, an.obj), LAMBDA sh :
                 create_mutex(sh.obj) \o <<Unlock(sh.obj)>>)
          ELSE <<>>))

\* vmmap_map: nothing is locked when vmmap_find_range finds no range
vmmap_map_mutex(k, m, lopage, npages, flags, dir) ==
  IF lopage = 0
  THEN Bind(vmmap_find_range(k, m, npages, dir), LAMBDA fr :
         IF fr.fault \/ fr.ret = 0 THEN <<>> ELSE vmmap_map_at_mutex(k, flags))
  ELSE vmmap_map_at_mutex(k, flags)

\* vmmap_clone, lines 552-565: the area's object is locked around the first
\* shadow_create only; each shadow is unlocked before it is tested
vmmap_clone_shadows_mutex(k, area) ==
  IF k.vmarea[area].vma_flags # MAP_SHARED
  THEN Bind(shadow_create(k, k.vmarea[area].vma_obj), LAMBDA s1 :
         <<Lock(k.vmarea[area].vma_obj)>> \o create_mutex(s1.obj) \o
         <<Unlock(k.vmarea[area].vma_obj), Unlock(s1.obj)>> \o
         (IF s1.obj = 0 THEN <<>>
          ELSE Bind(shadow_create(s1.k, k.vmarea[area].vma_obj), LAMBDA s2 :
                 create_mutex(s2.obj) \o <<Unlock(s2.obj)>>)))
  ELSE <<>>

\* vmmap_clone, lines 541-571: the loop over the areas of the map
RECURSIVE vmmap_clone_loop_mutex(_, _, _, _)
vmmap_clone_loop_mutex(k, new_map, areas, i) ==
  IF k.panic \/ i > Len(areas) \/ vmarea_alloc(k).area = 0 THEN <<>>
  ELSE vmmap_clone_shadows_mutex(k, areas[i]) \o
       vmmap_clone_loop_mutex(vmmap_clone_area(k, new_map, areas[i]).k,
                              new_map, areas, i + 1)

vmmap_clone_mutex(k, m) ==
  Bind(vmmap_create(k), LAMBDA c :
    IF c.map = 0 \/ vmm_walk(k, m).fault THEN <<>>
    ELSE vmmap_clone_loop_mutex(c.k, c.map, vmm_walk(k, m).areas, 1))

\* shadow_collapse, lines 103-108: o is locked and unlocked once for every
\* frame of the object that is merged into it
RECURSIVE collapse_frames_mutex(_, _)
collapse_frames_mutex(o, n) ==
  IF n = 0 THEN <<>>
  ELSE <<Lock(o), Unlock(o)>> \o collapse_frames_mutex(o, n - 1)

\* shadow_collapse, lines 102-119: the loop
RECURSIVE shadow_collapse_mutex(_, _, _, _, _)
shadow_collapse_mutex(k, o, current, stale, fuel) ==
  IF k.panic \/ current = 0 \/ fuel = 0 THEN <<>>
  ELSE IF k.mobj[current].mo_type # "shadow" THEN <<>>
  ELSE collapse_frames_mutex(o, Cardinality(DOMAIN k.mobj[current].frames)) \o
       (IF k.mobj[current].mo_refcount # 1 THEN <<>>
        ELSE shadow_collapse_mutex(
               mobj_put(collapse_frames(k, o, current), current), o,
               collapse_next(k, current, stale), stale, fuel - 1))

\* vmmap_collapse, lines 505-513: the object of the area is locked around
\* shadow_collapse
RECURSIVE vmmap_collapse_mutex(_, _, _, _)
vmmap_collapse_mutex(k, areas, i, stale) ==
  IF k.panic \/ i > Len(areas) THEN <<>>
  ELSE IF k.vmarea[areas[i]].vma_obj = 0 THEN <<>>
  ELSE IF k.mobj[k.vmarea[areas[i]].vma_obj].mo_type = "shadow"
  THEN Bind(k.vmarea[areas[i]].vma_obj, LAMBDA o :
         <<Lock(o)>> \o
         shadow_collapse_mutex(k, o, k.mobj[o].shadowed, stale, MaxMobjs) \o
         <<Unlock(o)>> \o
         vmmap_collapse_mutex(shadow_collapse(k, o, stale), areas, i + 1, stale))
  ELSE vmmap_collapse_mutex(k, areas, i + 1, stale)

\* shadow_get_pframe, lines 161-176: the read walk locks each shadow of the
\* chain in turn, then the object the chain ends in
RECURSIVE shadow_read_mutex(_, _, _, _)
shadow_read_mutex(k, current, pagenum, fuel) ==
  IF current = 0 \/ fuel = 0 THEN <<Lock(current), Unlock(current)>>
  ELSE IF k.mobj[current].mo_type # "shadow"
  THEN <<Lock(current), Unlock(current)>>
  ELSE <<Lock(current), Unlock(current)>> \o
       (IF mobj_find_pframe(k, current, pagenum) THEN <<>>
        ELSE shadow_read_mutex(k, k.mobj[current].shadowed, pagenum, fuel - 1))

\* shadow_get_pframe, lines 155-178: a write locks the bottom object
shadow_get_pframe_mutex(k, o, pagenum, forwrite) ==
  IF forwrite
  THEN <<Lock(k.mobj[o].bottom_mobj), Unlock(k.mobj[o].bottom_mobj)>>
  ELSE shadow_read_mutex(k, k.mobj[o].shadowed, pagenum, MaxMobjs)

\* mobj_get_pframe(o, ...) as vmmap_read (line 797), vmmap_write (line 840)
\* and handle_pagefault (line 981) call it: with o locked
mobj_get_pframe_mutex(k, o, pagenum, forwrite) ==
  <<Lock(o)>> \o
  (IF o # 0 /\ k.mobj[o].mo_type = "shadow"
   THEN shadow_get_pframe_mutex(k, o, pagenum, forwrite) ELSE <<>>) \o
  <<Unlock(o)>>

kernel_blank ==
  [vmarea |-> [a \in AreaIds |-> vmarea_none],
   l_next |-> [l \in Links |-> NULL],
   l_prev |-> [l \in Links |-> NULL],
   vmmap |-> [m \in MapIds |-> vmmap_none],
   mobj |-> [o \in MobjIds |-> mobj_none],
   proc |-> [p \in ProcIds |-> proc_none],
   pml4 |-> [p \in ProcIds |-> <<>>],
   panic |-> FALSE]

kernel_boot == proc_create(kernel_blank).k

Install(k) ==
  /\ vmarea' = k.vmarea
  /\ l_next' = k.l_next
  /\ l_prev' = k.l_prev
  /\ vmmap' = k.vmmap
  /\ mobj' = k.mobj
  /\ proc' = k.proc
  /\ pml4' = k.pml4
  /\ panic' = k.panic
  /\ fs' = fs
  /\ dev' = dev

\* The record of a virtual-memory call: the process, the page, the number of
\* pages or the value stored, and the result.
Sys(op, who, page, arg, ret) ==
  [op |-> op, who |-> who, page |-> page, arg |-> arg, ret |-> ret]

\* What each process must find in its pages (C2): "unmapped", or the value
\* it last stored there, the value being inherited by the child at a fork.
UserPages == USER_MEM_LOW_PN .. (USER_MEM_HIGH_PN - 1)

C2_ViewInit == [p \in ProcIds |-> [pg \in UserPages |-> "unmapped"]]

\* a new anonymous mapping reads as zeroes; nothing is required of a page
\* that is mapped a second time ("any")
C2_ViewMap(v, p, lopage, npages) ==
  [v EXCEPT ![p] = [pg \in UserPages |->
                      IF lopage <= pg /\ pg < lopage + npages
                      THEN (IF v[p][pg] = "unmapped" THEN ZERO ELSE "any")
                      ELSE v[p][pg]]]

C2_ViewStore(v, p, page, val) ==
  IF v[p][page] \in {"unmapped", "any"} THEN v ELSE [v EXCEPT ![p][page] = val]

C2_ViewFork(v, p, c) == [v EXCEPT ![c] = v[p]]

Boot(pend) ==
  /\ ldisc_init
  /\ kt_wait = [t \in Readers |-> "idle"]
  /\ kt_cancelled = [t \in Readers |-> FALSE]
  /\ last = Call("init", "-", 0, 0, <<>>, "none", "-")
  /\ trace = <<>>
  /\ pending = pend
  /\ vmarea = kernel_boot.vmarea
  /\ l_next = kernel_boot.l_next
  /\ l_prev = kernel_boot.l_prev
  /\ vmmap = kernel_boot.vmmap
  /\ mobj = kernel_boot.mobj
  /\ proc = kernel_boot.proc
  /\ pml4 = kernel_boot.pml4
  /\ panic = kernel_boot.panic
  /\ view = C2_ViewInit
  /\ fs = fs_boot
  /\ dev = dev_boot

(***************************************************************************)
(* Specifications of the line discipline.                                  *)
(***************************************************************************)
\* SpecLdisc: any sequence of key presses and reads after ldisc_init.
KeyPressed == \E c \in Keys : ldisc_key_pressed(c) /\ trace' = Record(K(c)) /\ UNCHANGED vmVars

Read == \E count \in Counts : ldisc_read(count) /\ trace' = Record(R(count)) /\ UNCHANGED vmVars

NextLdisc ==
  \/ KeyPressed
  \/ Read

SpecLdisc == Boot(C4_PendingOff) /\ [][NextLdisc]_vars

\* SpecLdiscWait: key presses and reads together with threads that wait in
\* ldisc_wait_read and may be cancelled.
WaitKey == \E c \in KeysWait : ldisc_key_pressed(c) /\ UNCHANGED <<trace, vmVars>>

WaitReadAll == ldisc_read(LDISC_BUFFER_SIZE) /\ UNCHANGED <<trace, vmVars>>

WaitRead == \E t \in Readers : ldisc_wait_read(t) /\ UNCHANGED <<trace, vmVars>>

WaitWoken == \E t \in Readers : wait_read_woken(t) /\ UNCHANGED <<trace, vmVars>>

WaitInterrupted == \E t \in Readers : wait_read_interrupted(t) /\ UNCHANGED <<trace, vmVars>>

Cancel == \E t \in Readers : kthread_cancel(t) /\ UNCHANGED <<trace, vmVars>>

NextLdiscWait ==
  \/ WaitKey
  \/ WaitReadAll
  \/ WaitRead
  \/ WaitWoken
  \/ WaitInterrupted
  \/ Cancel

SpecLdiscWait == Boot(C4_PendingOff) /\ [][NextLdiscWait]_vars

\* SpecLdiscWaitFair: the same, where each thread that was made runnable is
\* run in the end: it comes back from sched_cancellable_sleep_on.
RunWoken(t) == wait_read_woken(t) /\ UNCHANGED <<trace, vmVars>>

RunInterrupted(t) == wait_read_interrupted(t) /\ UNCHANGED <<trace, vmVars>>

SpecLdiscWaitFair ==
  /\ SpecLdiscWait
  /\ \A t \in Readers : WF_vars(RunWoken(t)) /\ WF_vars(RunInterrupted(t))

\* SpecLdiscFull: key presses, and one reader that keeps calling
\* ldisc_wait_read and ldisc_read with room for the whole buffer.
FullReader == "r1"

FullKey == \E c \in KeysWait : ldisc_key_pressed(c) /\ UNCHANGED <<trace, vmVars>>

FullWait == ldisc_wait_read(FullReader) /\ UNCHANGED <<trace, vmVars>>

FullWoken == wait_read_woken(FullReader) /\ UNCHANGED <<trace, vmVars>>

FullRead ==
  /\ kt_wait[FullReader] = "idle"
  /\ ldisc_read(LDISC_BUFFER_SIZE)
  /\ UNCHANGED <<trace, vmVars>>

NextLdiscFull ==
  \/ FullKey
  \/ FullWait
  \/ FullWoken
  \/ FullRead

SpecLdiscFull ==
  /\ Boot(C4_PendingOff)
  /\ [][NextLdiscFull]_vars
  /\ WF_vars(FullWait)
  /\ WF_vars(FullWoken)
  /\ WF_vars(FullRead)

\* SpecLdiscTest: the first MaxTrace calls after ldisc_init, recorded, over
\* the characters the tests use, with the owed input tracked.
TestKey ==
  /\ Len(trace) < MaxTrace
  /\ \E c \in KeysTest : ldisc_key_pressed(c) /\ trace' = Append(trace, K(c))
  /\ UNCHANGED vmVars

TestRead ==
  /\ Len(trace) < MaxTrace
  /\ \E count \in CountsTest : ldisc_read(count) /\ trace' = Append(trace, R(count))
  /\ UNCHANGED vmVars

NextLdiscTest ==
  \/ TestKey
  \/ TestRead

SpecLdiscTest == Boot(C4_PendingInit) /\ [][NextLdiscTest]_vars

\* SpecLdiscFill: ordinary characters typed into the buffer ldisc_init left,
\* any number of them, and then one newline.
KeysFill == Keys \ Control

FillKey ==
  /\ last.c # NL
  /\ \E c \in KeysFill : ldisc_key_pressed(c)
  /\ UNCHANGED <<trace, vmVars>>

FillNewline ==
  /\ last.c # NL
  /\ ldisc_key_pressed(NL)
  /\ UNCHANGED <<trace, vmVars>>

NextLdiscFill ==
  \/ FillKey
  \/ FillNewline

SpecLdiscFill == Boot(C4_PendingOff) /\ [][NextLdiscFill]_vars

(***************************************************************************)
(* Specifications of the virtual memory.                                   *)
(***************************************************************************)
Running(p) == ~panic /\ proc[p].p_state = "running"

\* SpecVmmap: vmmap_map and vmmap_remove on the map of the first process.
\* A mapping is either placed by vmmap_find_range (lopage 0) or MAP_FIXED
\* at a given page.
MapLopages == {0, USER_MEM_LOW_PN + 1, USER_MEM_LOW_PN + 3}
MapNpages == {1, 2}
MapFlags == {{"PRIVATE", "ANON"}}
ProtRW == {"READ", "WRITE"}

Flags(f, lopage) == IF lopage = 0 THEN f ELSE f \cup {"FIXED"}

Map(p, lopage, npages, f) ==
  /\ Running(p)
  /\ LET r == vmmap_map(Kernel, proc[p].p_vmmap, lopage, npages, ProtRW,
                        Flags(f, lopage), 0, "HILO")
     IN /\ Install(r.k)
        /\ last' = Sys("map", p, lopage, npages, r.ret)
        /\ view' = IF r.ret = 0 /\ lopage # 0
                   THEN C2_ViewMap(view, p, lopage, npages) ELSE view
  /\ UNCHANGED <<ldiscVars, ldisc_read_queue, kt_wait, kt_cancelled, trace, pending>>

Unmap(p, lopage, npages) ==
  /\ Running(p)
  /\ LET r == vmmap_remove(Kernel, proc[p].p_vmmap, lopage, npages)
     IN /\ Install(r.k)
        /\ last' = Sys("unmap", p, lopage, npages, r.ret)
  /\ UNCHANGED <<ldiscVars, ldisc_read_queue, kt_wait, kt_cancelled, trace,
                 pending, view>>

VmMap ==
  \E lopage \in MapLopages, npages \in MapNpages, f \in MapFlags :
    /\ lopage + npages <= USER_MEM_HIGH_PN
    /\ Map(1, lopage, npages, f)

VmUnmap ==
  \E lopage \in UserPages, npages \in MapNpages :
    /\ lopage + npages <= USER_MEM_HIGH_PN
    /\ Unmap(1, lopage, npages)

NextVmmap ==
  \/ VmMap
  \/ VmUnmap

SpecVmmap == Boot(C4_PendingOff) /\ [][NextVmmap]_vars

\* SpecFind: SpecVmmap with calls of vmmap_find_range on the map of the
\* first process, in both directions.
FindDirs == {"LOHI", "HILO"}

FindRange(p, npages, dir) ==
  /\ Running(p)
  /\ LET r == vmmap_find_range(Kernel, proc[p].p_vmmap, npages, dir)
     IN /\ Install(IF r.fault THEN Panic(Kernel) ELSE Kernel)
        /\ last' = Sys("find_range", p, npages, dir, r.ret)
  /\ UNCHANGED <<ldiscVars, ldisc_read_queue, kt_wait, kt_cancelled, trace,
                 pending, view>>

VmFindRange == \E npages \in MapNpages, dir \in FindDirs : FindRange(1, npages, dir)

NextFind ==
  \/ VmMap
  \/ VmUnmap
  \/ VmFindRange

SpecFind == Boot(C4_PendingOff) /\ [][NextFind]_vars

\* SpecFault: mappings of every protection on the map of the first process
\* and page faults of every cause, at pages inside and outside the user range.
FaultProts == SUBSET {"READ", "WRITE", "EXEC"}
FaultCauses == {{}, {"WRITE"}, {"EXEC"}}
FaultPages == (USER_MEM_LOW_PN - 1) .. (USER_MEM_HIGH_PN + 1)

MapProt(p, lopage, npages, prot, f) ==
  /\ Running(p)
  /\ LET r == vmmap_map(Kernel, proc[p].p_vmmap, lopage, npages, prot,
                        Flags(f, lopage), 0, "HILO")
     IN /\ Install(r.k)
        /\ last' = Sys("map", p, lopage, npages, r.ret)
        /\ view' = IF r.ret = 0 /\ lopage # 0
                   THEN C2_ViewMap(view, p, lopage, npages) ELSE view
  /\ UNCHANGED <<ldiscVars, ldisc_read_queue, kt_wait, kt_cancelled, trace, pending>>

\* the fault the processor raises for an access the page table entry does
\* not allow
Pagefault(p, page, cause) ==
  /\ Running(p)
  /\ ~pte_allows(Kernel, p, page, "WRITE" \in cause)
  /\ Install(handle_pagefault(Kernel, p, page, cause))
  /\ last' = Sys("fault", p, page, cause, 0)
  /\ UNCHANGED <<ldiscVars, ldisc_read_queue, kt_wait, kt_cancelled, trace,
                 pending, view>>

FaultMap ==
  \E npages \in MapNpages, prot \in FaultProts, f \in MapFlags :
    MapProt(1, USER_MEM_LOW_PN + 1, npages, prot, f)

FaultFault == \E page \in FaultPages, cause \in FaultCauses : Pagefault(1, page, cause)

NextFault ==
  \/ FaultMap
  \/ FaultFault

SpecFault == Boot(C4_PendingOff) /\ [][NextFault]_vars

\* SpecClone: private and shared mappings on the map of the first process,
\* vmmap_clone of that map, and vmmap_destroy of the clone.
CloneFlags == {{"PRIVATE", "ANON"}, {"SHARED"}, {"SHARED", "ANON"}}
CloneLopages == {0, USER_MEM_LOW_PN + 1}

CloneMap ==
  \E lopage \in CloneLopages, f \in CloneFlags : Map(1, lopage, 1, f)

Clone(p) ==
  /\ Running(p)
  /\ LET r == vmmap_clone(Kernel, proc[p].p_vmmap)
     IN /\ Install(r.k)
        /\ last' = Sys("clone", p, 0, 0, r.map)
  /\ UNCHANGED <<ldiscVars, ldisc_read_queue, kt_wait, kt_cancelled, trace,
                 pending, view>>

CloneDestroy(p) ==
  /\ Running(p)
  /\ \E m \in MapIds \ {proc[p].p_vmmap} :
       /\ vmmap[m].used
       /\ Install(vmmap_destroy(Kernel, m))
       /\ last' = Sys("destroy", p, 0, 0, m)
  /\ UNCHANGED <<ldiscVars, ldisc_read_queue, kt_wait, kt_cancelled, trace,
                 pending, view>>

NextClone ==
  \/ CloneMap
  \/ Unmap(1, USER_MEM_LOW_PN + 1, 1)
  \/ Clone(1)
  \/ CloneDestroy(1)

SpecClone == Boot(C4_PendingOff) /\ [][NextClone]_vars

\* SpecRW: one PROT_READ|PROT_WRITE, MAP_PRIVATE|MAP_ANON region on the map
\* of the first process, strings written into it by vmmap_write, each
\* followed by a vmmap_read of the same range.
RWBytes == {"a", "b"}
RWStrings == UNION {[1 .. n -> RWBytes] : n \in 0 .. MaxWrite}
RWAddrs == (USER_MEM_LOW_PN * PAGE_SIZE) .. (USER_MEM_HIGH_PN * PAGE_SIZE - 1)

\* the string of count bytes at vaddr lies in one area of the map
RWFits(p, vaddr, count) ==
  \E a \in AreaIds :
    /\ vmarea[a].used /\ vmarea[a].vma_vmmap = proc[p].p_vmmap
    /\ vmarea[a].vma_start * PAGE_SIZE <= vaddr
    /\ vaddr < vmarea[a].vma_end * PAGE_SIZE
    /\ vaddr + count <= vmarea[a].vma_end * PAGE_SIZE

RWMap ==
  /\ vmm_areas(Kernel, proc[1].p_vmmap) = <<>>
  /\ \E npages \in MapNpages :
       MapProt(1, USER_MEM_LOW_PN + 1, npages, ProtRW, {"PRIVATE", "ANON"})

RWWrite(p, vaddr, buf) ==
  /\ Running(p)
  /\ RWFits(p, vaddr, Len(buf))
  /\ LET r == vmmap_write(Kernel, proc[p].p_vmmap, vaddr, buf, Len(buf))
     IN /\ Install(r.k)
        /\ last' = Sys("write", p, vaddr, buf, r.ret)
  /\ UNCHANGED <<ldiscVars, ldisc_read_queue, kt_wait, kt_cancelled, trace,
                 pending, view>>

RWRead(p) ==
  /\ Running(p)
  /\ last.op = "write"
  /\ LET r == vmmap_read(Kernel, proc[p].p_vmmap, last.page, Len(last.arg))
     IN /\ Install(r.k)
        /\ last' = Sys("read", p, last.page, <<last.arg, r.buf>>, r.ret)
  /\ UNCHANGED <<ldiscVars, ldisc_read_queue, kt_wait, kt_cancelled, trace,
                 pending, view>>

NextRW ==
  \/ RWMap
  \/ \E vaddr \in RWAddrs, buf \in RWStrings : RWWrite(1, vaddr, buf)
  \/ RWRead(1)

SpecRW == Boot(C4_PendingOff) /\ [][NextRW]_vars

\* SpecBrk: the loader sets the starting break of the first process, page
\* aligned or not, and the process calls brk with every address.
BrkStarts ==
  {USER_MEM_LOW_PN * PAGE_SIZE + 1, (USER_MEM_LOW_PN + 1) * PAGE_SIZE,
   (USER_MEM_LOW_PN + 1) * PAGE_SIZE + 1, (USER_MEM_LOW_PN + 2) * PAGE_SIZE}
BrkAddrs == 0 .. (USER_MEM_HIGH + 1)

BrkLoad(p, start_brk) ==
  /\ Running(p)
  /\ proc[p].p_start_brk = 0
  /\ vmm_areas(Kernel, proc[p].p_vmmap) = <<>>
  /\ proc' = [proc EXCEPT ![p].p_start_brk = start_brk, ![p].p_brk = start_brk]
  /\ last' = Sys("load_brk", p, 0, start_brk, 0)
  /\ UNCHANGED <<ldiscVars, ldisc_read_queue, kt_wait, kt_cancelled, trace,
                 pending, view, vmarea, l_next, l_prev, vmmap, mobj, pml4, panic,
                 fs, dev>>

Brk(p, addr) ==
  /\ Running(p)
  /\ proc[p].p_start_brk # 0
  /\ LET r == do_brk(Kernel, p, addr)
     IN /\ Install(r.k)
        /\ last' = Sys("brk", p, 0, addr, r.ret)
  /\ UNCHANGED <<ldiscVars, ldisc_read_queue, kt_wait, kt_cancelled, trace,
                 pending, view>>

NextBrk ==
  \/ \E start_brk \in BrkStarts : BrkLoad(1, start_brk)
  \/ \E addr \in BrkAddrs : Brk(1, addr)

SpecBrk == Boot(C4_PendingOff) /\ [][NextBrk]_vars

\* SpecNamev: path resolutions from every directory, the caller putting the
\* directory it was given before the next resolution.
kernelVars == <<vmarea, l_next, l_prev, vmmap, mobj, proc, pml4, panic>>
PathExamples == {<<"/", "a", "/", "a", "/", "a", "/">>,
                 <<"a", "/", ".", ".", "/", "/", ".">>}
NamevPaths == Paths \cup PathExamples

FsCall(op, base, path, ret, dir, name, called) ==
  [op |-> op, base |-> base, path |-> path, ret |-> ret, dir |-> dir,
   name |-> name, called |-> called, before |-> fs]

FsIdle == fs = fs_boot

NamevDir(base, path) ==
  /\ FsIdle
  /\ LET r == namev_dir(fs, base, path)
     IN /\ fs' = r.f
        /\ last' = FsCall("namev_dir", base, path, r.ret, r.dir, r.name, <<>>)
  /\ UNCHANGED <<ldiscVars, ldisc_read_queue, kt_wait, kt_cancelled, trace,
                 pending, view, kernelVars, dev>>

\* the caller's vput of the directory that namev_dir returned
NamevPut ==
  /\ last.op = "namev_dir"
  /\ last.ret = 0
  /\ ~FsIdle
  /\ fs' = vput(fs, last.dir)
  /\ last' = FsCall("vput", last.dir, <<>>, 0, 0, <<>>, <<>>)
  /\ UNCHANGED <<ldiscVars, ldisc_read_queue, kt_wait, kt_cancelled, trace,
                 pending, view, kernelVars, dev>>

NextNamev ==
  \/ \E base \in VnodeIds, path \in NamevPaths : NamevDir(base, path)
  \/ NamevPut

SpecNamev == Boot(C4_PendingOff) /\ [][NextNamev]_vars

\* SpecRmdir: rmdir calls from every directory that still exists; byte is
\* what the memory before the path string holds, which do_rmdir reads when
\* the path has one character.
RmdirPaths == UNION {[1 .. n -> PathChars] : n \in 0 .. MaxRmdirPath}
RmdirBytes(path) == IF Len(path) = 1 THEN PathChars ELSE {"/"}

Rmdir(cwd, path, byte) ==
  /\ cwd \in fs.linked
  /\ LET r == do_rmdir(fs, cwd, path, byte)
     IN /\ fs' = r.f
        /\ last' = FsCall("rmdir", cwd, path, r.ret, 0, <<byte>>, r.called)
  /\ UNCHANGED <<ldiscVars, ldisc_read_queue, kt_wait, kt_cancelled, trace,
                 pending, view, kernelVars, dev>>

NextRmdir == \E cwd \in VnodeIds, path \in RmdirPaths :
               \E byte \in RmdirBytes(path) : Rmdir(cwd, path, byte)

SpecRmdir == Boot(C4_PendingOff) /\ [][NextRmdir]_vars

\* SpecFd: one process opening, duplicating and closing descriptors.
FdArgs == (0 - 1) .. NFILES
OpenModes == {{FMODE_READ}, {FMODE_READ, FMODE_WRITE}}
OpenVnodes == {fs_root} \cup FileVnodes

FdCall(op, fd, arg, ret, mid) ==
  [op |-> op, fd |-> fd, arg |-> arg, ret |-> ret, mid |-> mid, before |-> fs]

fsRest == <<ldiscVars, ldisc_read_queue, kt_wait, kt_cancelled, trace,
            pending, view, kernelVars, dev>>

\* do_open of an existing vnode: a new file object on the lowest free descriptor
fcreate(f, fd, file, v, mode) ==
  [vref(f, v) EXCEPT !.p_files[fd] = file,
                     !.file[file] = [f_vnode |-> v, f_pos |-> 0,
                                     f_mode |-> mode, f_refcount |-> 1]]

Open(v, mode) ==
  /\ get_empty_fd(fs).ret = 0
  /\ \E file \in FileIds :
       /\ fs.file[file].f_refcount = 0
       /\ \A g \in FileIds : g < file => fs.file[g].f_refcount # 0
       /\ fs' = fcreate(fs, get_empty_fd(fs).fd, file, v, mode)
       /\ last' = FdCall("open", get_empty_fd(fs).fd, v, get_empty_fd(fs).fd, fs)
  /\ UNCHANGED fsRest

Close(fd) ==
  /\ LET r == do_close(fs, fd)
     IN /\ fs' = r.f
        /\ last' = FdCall("close", fd, 0, r.ret, fs)
  /\ UNCHANGED fsRest

Dup(fd) ==
  /\ LET r == do_dup(fs, fd)
     IN /\ fs' = r.f
        /\ last' = FdCall("dup", fd, 0, r.ret, fs)
  /\ UNCHANGED fsRest

Dup2(ofd, nfd) ==
  /\ LET r == do_dup2(fs, ofd, nfd)
     IN /\ fs' = r.f
        /\ last' = FdCall("dup2", ofd, nfd, r.ret, r.mid)
  /\ UNCHANGED fsRest

NextFd ==
  \/ \E v \in OpenVnodes : Open(v, {FMODE_READ})
  \/ \E fd \in FdArgs : Close(fd)
  \/ \E fd \in FdArgs : Dup(fd)
  \/ \E ofd \in FdArgs, nfd \in FdArgs : Dup2(ofd, nfd)

SpecFd == Boot(C4_PendingOff) /\ [][NextFd]_vars

\* SpecFile: one open file at a time, read, written and repositioned; fail
\* says that the vnode operation reports an error.
FileModes == {{FMODE_READ}, {FMODE_WRITE}, {FMODE_READ, FMODE_WRITE},
              {FMODE_READ, FMODE_WRITE, FMODE_APPEND}}
FileLens == 0 .. 2
SeekOffsets == (0 - MaxLen) .. MaxLen
Whences == {SEEK_SET, SEEK_CUR, SEEK_END, "SEEK_DATA"}
FileFds == {0 - 1, 0}

\* the position of the file of an open descriptor
FilePos(f, fd) == f.file[f.p_files[fd]].f_pos

FileOpen(v, mode) ==
  /\ \A fd \in Fds : fs.p_files[fd] = 0
  /\ v \in VnodeIds => FMODE_WRITE \notin mode
  /\ Open(v, mode)

FileRead(fd, len, fail) ==
  /\ LET r == do_read(fs, fd, len, fail)
     IN /\ fs' = r.f
        /\ last' = FdCall("read", fd, len, r.ret, fs)
  /\ UNCHANGED fsRest

FileWrite(fd, len, fail) ==
  /\ LET r == do_write(fs, fd, len, fail)
     IN /\ fs' = r.f
        /\ last' = FdCall("write", fd, len, r.ret, fs)
  /\ UNCHANGED fsRest

FileLseek(fd, offset, whence) ==
  /\ LET r == do_lseek(fs, fd, offset, whence)
     IN /\ fd \in Fds /\ fs.p_files[fd] # 0 => FilePos(r.f, fd) <= MaxLen
        /\ fs' = r.f
        /\ last' = FdCall("lseek", fd, <<offset, whence>>, r.ret, fs)
  /\ UNCHANGED fsRest

NextFile ==
  \/ \E v \in OpenVnodes, mode \in FileModes : FileOpen(v, mode)
  \/ \E fd \in FileFds : Close(fd)
  \/ \E fd \in FileFds, len \in FileLens, fail \in BOOLEAN : FileRead(fd, len, fail)
  \/ \E fd \in FileFds, len \in FileLens, fail \in BOOLEAN : FileWrite(fd, len, fail)
  \/ \E fd \in FileFds, offset \in 0 .. MaxLen : FileLseek(fd, offset, SEEK_SET)

SpecFile == Boot(C4_PendingOff) /\ [][NextFile]_vars

\* SpecSeek: a file that is written and repositioned in every way.
NextSeek ==
  \/ FileOpen(4, {FMODE_READ, FMODE_WRITE})
  \/ \E len \in FileLens : FileWrite(0, len, FALSE)
  \/ \E fd \in FileFds, offset \in SeekOffsets, whence \in Whences :
       FileLseek(fd, offset, whence)

SpecSeek == Boot(C4_PendingOff) /\ [][NextSeek]_vars

\* SpecMemdevs: the devices are registered, then read, written and mapped by
\* callers whose buffer holds any bytes.
DevCall(op, id, count, ret) ==
  [op |-> op, id |-> id, count |-> count, ret |-> ret, before |-> dev]

devRest == <<ldiscVars, ldisc_read_queue, kt_wait, kt_cancelled, trace,
             pending, view, kernelVars, fs>>

Registered(id) == chardev_lookup(dev, id).cd_id = id

MemdevsInit ==
  /\ \A id \in DevIds : ~Registered(id)
  /\ dev' = memdevs_init(dev)
  /\ last' = DevCall("memdevs_init", "NULL", 0, 0)
  /\ UNCHANGED devRest

\* the caller's buffer before a read
DevBuf(buf) ==
  /\ dev' = [dev EXCEPT !.buf = buf]
  /\ last' = DevCall("buf", "NULL", 0, 0)
  /\ UNCHANGED devRest

DevRead(id, count) ==
  /\ Registered(id)
  /\ LET r == cd_read(chardev_lookup(dev, id), dev.buf, count)
     IN /\ dev' = [dev EXCEPT !.buf = r.buf]
        /\ last' = DevCall("read", id, count, r.ret)
  /\ UNCHANGED devRest

DevWrite(id, count) ==
  /\ Registered(id)
  /\ dev' = dev
  /\ last' = DevCall("write", id, count, cd_write(chardev_lookup(dev, id), count))
  /\ UNCHANGED devRest

DevMmap(id) ==
  /\ Registered(id)
  /\ dev' = dev
  /\ last' = DevCall("mmap", id, cd_mmap(chardev_lookup(dev, id)).mobj,
                     cd_mmap(chardev_lookup(dev, id)).ret)
  /\ UNCHANGED devRest

NextMemdevs ==
  \/ MemdevsInit
  \/ \E buf \in Bufs : DevBuf(buf)
  \/ \E id \in DevIds, count \in 0 .. MaxBuf : DevRead(id, count)
  \/ \E id \in DevIds, count \in 0 .. MaxBuf : DevWrite(id, count)
  \/ \E id \in DevIds : DevMmap(id)

SpecMemdevs == Boot(C4_PendingOff) /\ [][NextMemdevs]_vars

\* SpecShadow: private mappings, their clones, and the frames that a fault
\* handler asks of an area's object for reading and for writing.
ShadowLopages == {USER_MEM_LOW_PN + 1, USER_MEM_LOW_PN + 3}
ShadowPagenums == {0, 1}

GetPframe(a, pagenum, forwrite) ==
  /\ vmarea[a].used
  /\ vmarea[a].vma_obj # 0
  /\ LET r == mobj_get_pframe(Kernel, vmarea[a].vma_obj, pagenum, forwrite)
     IN /\ Install(r.k)
        /\ last' = Sys("get_pframe", vmarea[a].vma_obj, pagenum, forwrite, r.pf)
  /\ UNCHANGED <<ldiscVars, ldisc_read_queue, kt_wait, kt_cancelled, trace,
                 pending, view>>

NextShadow ==
  \/ \E lopage \in ShadowLopages : Map(1, lopage, 1, {"PRIVATE", "ANON"})
  \/ \E lopage \in ShadowLopages : Unmap(1, lopage, 1)
  \/ Clone(1)
  \/ \E a \in AreaIds, pagenum \in ShadowPagenums, forwrite \in BOOLEAN :
       GetPframe(a, pagenum, forwrite)

SpecShadow == Boot(C4_PendingOff) /\ [][NextShadow]_vars

\* SpecCollapse: a private mapping that is cloned as fork clones it, the
\* clone destroyed as exit destroys it, the map collapsed, areas removed.
CollapseLopages == {USER_MEM_LOW_PN + 1, USER_MEM_LOW_PN + 2}

Collapse(p, stale) ==
  /\ Running(p)
  /\ Install(vmmap_collapse(Kernel, proc[p].p_vmmap, stale))
  /\ last' = Sys("collapse", p, 0, stale, 0)
  /\ UNCHANGED <<ldiscVars, ldisc_read_queue, kt_wait, kt_cancelled, trace,
                 pending, view>>

NextCollapse ==
  \/ \E lopage \in CollapseLopages, npages \in MapNpages :
       Map(1, lopage, npages, {"PRIVATE", "ANON"})
  \/ \E lopage \in CollapseLopages : Unmap(1, lopage, 1)
  \/ \E a \in AreaIds : GetPframe(a, 0, TRUE)
  \/ Clone(1)
  \/ CloneDestroy(1)
  \/ \E stale \in BOOLEAN : Collapse(1, stale)

SpecCollapse == Boot(C4_PendingOff) /\ [][NextCollapse]_vars

\* SpecUnmap: one private mapping whose pages are faulted in, and
\* vmmap_remove of ranges that cut its front, its middle, its back or all
\* of it.
UnmapNpages == {2, 3}

NextUnmap ==
  \/ \E npages \in UnmapNpages :
       /\ vmm_areas(Kernel, proc[1].p_vmmap) = <<>>
       /\ Map(1, USER_MEM_LOW_PN, npages, {"PRIVATE", "ANON"})
  \/ \E page \in UserPages : Pagefault(1, page, {})
  \/ \E lopage \in UserPages, npages \in MapNpages : Unmap(1, lopage, npages)

SpecUnmap == Boot(C4_PendingOff) /\ [][NextUnmap]_vars

\* SpecNoRange: a MAP_FIXED mapping that takes most of the user pages, and
\* mappings placed by vmmap_find_range in what is left.
NoRangeNpages == {3, 4}

NextNoRange ==
  \/ \E npages \in NoRangeNpages : Map(1, USER_MEM_LOW_PN, npages, {"PRIVATE", "ANON"})
  \/ \E npages \in MapNpages : Map(1, 0, npages, {"PRIVATE", "ANON"})
  \/ \E lopage \in UserPages : Unmap(1, lopage, 1)

SpecNoRange == Boot(C4_PendingOff) /\ [][NextNoRange]_vars

\* SpecPath: one process calling the path functions and the system calls
\* that take a path, from its working directory; the caller of namev_dir
\* and namev_open puts the vnode it was given before the next call.
\* every path of up to MaxSysPath characters, and one whose name is long
SysLongPath == <<"a", "a", "a">>
SysPaths == UNION {[1 .. n -> PathChars] : n \in 0 .. MaxSysPath} \cup {SysLongPath}
SysOldPaths == {path \in SysPaths : Len(path) <= 1}
SysModes == {"S_IFREG", "S_IFDIR"}

\* the reference that namev_dir or namev_open returned is still held
SysHeld == last.op \in {"namev_dir", "namev_open"} /\ last.ret = 0

\* the record of a call: its result and the vnode it returned
SysCall(op, path, r, dir, name) ==
  /\ ~SysHeld
  /\ fs' = r.f
  /\ last' = [op |-> op, ret |-> r.ret, dir |-> dir]
  /\ UNCHANGED <<ldiscVars, ldisc_read_queue, kt_wait, kt_cancelled, trace,
                 pending, view, kernelVars, dev>>

SysNamevDir(path) ==
  SysCall("namev_dir", path, namev_dir(fs, fs.p_cwd, path),
          namev_dir(fs, fs.p_cwd, path).dir, <<>>)

SysNamevOpen(path, creat) ==
  SysCall("namev_open", path, namev_open(fs, fs.p_cwd, path, creat, "S_IFREG"),
          namev_open(fs, fs.p_cwd, path, creat, "S_IFREG").res, <<>>)

SysPut ==
  /\ SysHeld
  /\ fs' = vput(fs, last.dir)
  /\ last' = [op |-> "vput", ret |-> 0, dir |-> 0]
  /\ UNCHANGED <<ldiscVars, ldisc_read_queue, kt_wait, kt_cancelled, trace,
                 pending, view, kernelVars, dev>>

SysMknod(path, mode) == SysCall("mknod", path, do_mknod(fs, path, mode), 0, <<>>)

SysMkdir(path) == SysCall("mkdir", path, do_mkdir(fs, path), 0, <<>>)

SysRmdir(path, byte) ==
  SysCall("rmdir", path, do_rmdir(fs, fs.p_cwd, path, byte), 0, <<>>)

SysUnlink(path) == SysCall("unlink", path, do_unlink(fs, path), 0, <<>>)

SysLink(oldpath, newpath) ==
  SysCall("link", oldpath, do_link(fs, oldpath, newpath), 0, newpath)

SysRename(oldpath, newpath) ==
  SysCall("rename", oldpath, do_rename(fs, oldpath, newpath), 0, newpath)

SysStat(path) == SysCall("stat", path, do_stat(fs, path), 0, <<>>)

SysChdir(path) == SysCall("chdir", path, do_chdir(fs, path), 0, <<>>)

NextPath ==
  \/ \E path \in SysPaths : SysNamevDir(path)
  \/ \E path \in SysPaths, creat \in BOOLEAN : SysNamevOpen(path, creat)
  \/ SysPut
  \/ \E path \in SysPaths, mode \in SysModes : SysMknod(path, mode)
  \/ \E path \in SysPaths : SysMkdir(path)
  \/ \E path \in SysPaths : \E byte \in RmdirBytes(path) : SysRmdir(path, byte)
  \/ \E path \in SysPaths : SysUnlink(path)
  \/ \E oldpath \in SysOldPaths, newpath \in SysPaths : SysLink(oldpath, newpath)
  \/ \E oldpath \in SysOldPaths, newpath \in SysPaths : SysRename(oldpath, newpath)
  \/ \E path \in SysPaths : SysStat(path)
  \/ \E path \in SysPaths : SysChdir(path)

SpecPath == Boot(C4_PendingOff) /\ [][NextPath]_vars

\* SpecDirent: the calls of SpecFd and do_getdent on every descriptor.
Getdent(fd) ==
  /\ LET r == do_getdent(fs, fd)
     IN /\ fs' = r.f
        /\ last' = FdCall("getdent", fd, 0, r.ret, fs)
  /\ UNCHANGED fsRest

NextDirent ==
  \/ NextFd
  \/ \E fd \in FdArgs : Getdent(fd)

SpecDirent == Boot(C4_PendingOff) /\ [][NextDirent]_vars

\* SpecSplit: one MAP_FIXED mapping of several pages at an object offset,
\* as test_vmmap makes it, and removals of ranges of it.
SplitLopages == {USER_MEM_LOW_PN}
SplitNpages == {3, 4}
SplitOffs == {0, 1}

MapOff(p, lopage, npages, f, off) ==
  /\ Running(p)
  /\ LET r == vmmap_map(Kernel, proc[p].p_vmmap, lopage, npages, ProtRW,
                        Flags(f, lopage), off, "HILO")
     IN /\ Install(r.k)
        /\ last' = Sys("map", p, lopage, npages, r.ret)
        /\ view' = IF r.ret = 0 /\ lopage # 0
                   THEN C2_ViewMap(view, p, lopage, npages) ELSE view
  /\ UNCHANGED <<ldiscVars, ldisc_read_queue, kt_wait, kt_cancelled, trace, pending>>

SplitMap ==
  \E lopage \in SplitLopages, npages \in SplitNpages, f \in MapFlags,
     off \in SplitOffs :
    /\ lopage + npages <= USER_MEM_HIGH_PN
    /\ MapOff(1, lopage, npages, f, off)

SplitUnmap ==
  \E lopage \in UserPages, npages \in MapNpages :
    /\ lopage + npages <= USER_MEM_HIGH_PN
    /\ Unmap(1, lopage, npages)

NextSplit ==
  \/ SplitMap
  \/ SplitUnmap

SpecSplit == Boot(C4_PendingOff) /\ [][NextSplit]_vars

\* SpecEmpty: SpecSplit with calls of vmmap_is_range_empty on the map of the
\* first process.
RangeEmpty(p, startvfn, npages) ==
  /\ Running(p)
  /\ LET r == vmmap_is_range_empty(Kernel, proc[p].p_vmmap, startvfn, npages)
     IN /\ Install(IF r.fault THEN Panic(Kernel) ELSE Kernel)
        /\ last' = Sys("range_empty", p, startvfn, npages, r.ret)
  /\ UNCHANGED <<ldiscVars, ldisc_read_queue, kt_wait, kt_cancelled, trace,
                 pending, view>>

VmRangeEmpty ==
  \E startvfn \in UserPages, npages \in MapNpages :
    /\ startvfn + npages <= USER_MEM_HIGH_PN
    /\ RangeEmpty(1, startvfn, npages)

NextEmpty ==
  \/ SplitMap
  \/ SplitUnmap
  \/ VmRangeEmpty

SpecEmpty == Boot(C4_PendingOff) /\ [][NextEmpty]_vars

\* SpecFork: processes that map private anonymous memory at a fixed page,
\* store to it, load from it and fork.
ForkLopages == {USER_MEM_LOW_PN + 1}
ForkPages == {USER_MEM_LOW_PN + 1}

Store(p, page, val) ==
  /\ Running(p)
  /\ LET k == user_access(Kernel, p, page, TRUE)
         ok == ~k.panic /\ k.proc[p].p_state = "running"
     IN /\ Install(IF ok THEN user_store_frame(k, p, page, val) ELSE k)
        /\ last' = Sys("store", p, page, val, IF ok THEN 0 ELSE 0 - EFAULT)
        /\ view' = IF ok THEN C2_ViewStore(view, p, page, val) ELSE view
  /\ UNCHANGED <<ldiscVars, ldisc_read_queue, kt_wait, kt_cancelled, trace, pending>>

Load(p, page) ==
  /\ Running(p)
  /\ LET k == user_access(Kernel, p, page, FALSE)
         ok == ~k.panic /\ k.proc[p].p_state = "running"
     IN /\ Install(k)
        /\ last' = Sys("load", p, page,
                       IF ok THEN user_load_value(k, p, page) ELSE "fault",
                       IF ok THEN 0 ELSE 0 - EFAULT)
  /\ UNCHANGED <<ldiscVars, ldisc_read_queue, kt_wait, kt_cancelled, trace,
                 pending, view>>

Fork(p, thread_ok) ==
  /\ Running(p)
  /\ LET r == do_fork(Kernel, p, thread_ok)
     IN /\ Install(r.k)
        /\ last' = Sys("fork", p, 0, 0, r.ret)
        /\ view' = IF r.ret > 0 THEN C2_ViewFork(view, p, r.ret) ELSE view
  /\ UNCHANGED <<ldiscVars, ldisc_read_queue, kt_wait, kt_cancelled, trace, pending>>

ForkMap ==
  \E p \in ProcIds, lopage \in ForkLopages :
    Map(p, lopage, 1, {"PRIVATE", "ANON"})

ForkStore == \E p \in ProcIds, page \in ForkPages, val \in Vals : Store(p, page, val)

ForkLoad == \E p \in ProcIds, page \in ForkPages : Load(p, page)

ForkFork == \E p \in ProcIds, thread_ok \in BOOLEAN : Fork(p, thread_ok)

NextFork ==
  \/ ForkMap
  \/ ForkStore
  \/ ForkLoad
  \/ ForkFork

SpecFork == Boot(C4_PendingOff) /\ [][NextFork]_vars

(***************************************************************************)
(* Properties of the line discipline.                                      *)
(***************************************************************************)
\* Distance from tail to x, walking forward round the buffer.
CircDist(x) == (x - ldisc_tail + LDISC_BUFFER_SIZE) % LDISC_BUFFER_SIZE

\* C1: in every state reachable from ldisc_init by key presses and reads,
\* walking forward from tail, cooked is met no later than head:
\* tail <= cooked <= head in circular order modulo LDISC_BUFFER_SIZE.
C1_CursorOrder == CircDist(ldisc_cooked) <= CircDist(ldisc_head)

\* C4: the bytes a read returns are a prefix of the committed input not yet
\* delivered (typed characters in arrival order, erased and discarded ones
\* removed, EOT dropped), so the concatenation of all reads is a prefix of the
\* committed input and no byte is delivered twice or out of order.
C4_ReadsArePrefix ==
  [][(last'.op = "read" /\ pending.on) => IsPrefix(last'.buf, pending.committed)]_vars

\* What C6 asks of a read in the current state: bytes are taken in order from
\* position i and the walk stops when i reaches cooked, when count bytes are
\* copied, after a newline is copied, or after an EOT is consumed uncopied.
RECURSIVE C6_Walk(_, _, _, _)
C6_Walk(i, buf, consumed, count) ==
  IF i = ldisc_cooked \/ Len(buf) = count
  THEN [tail |-> i, buf |-> buf, consumed |-> consumed]
  ELSE IF ldisc_buffer[i] = EOT
  THEN [tail |-> (i + 1) % LDISC_BUFFER_SIZE, buf |-> buf, consumed |-> consumed + 1]
  ELSE IF ldisc_buffer[i] = NL
  THEN [tail |-> (i + 1) % LDISC_BUFFER_SIZE, buf |-> Append(buf, NL),
        consumed |-> consumed + 1]
  ELSE C6_Walk((i + 1) % LDISC_BUFFER_SIZE, Append(buf, ldisc_buffer[i]),
               consumed + 1, count)

\* C6: ldisc_read copies bytes in order from tail and stops at the first of
\* tail reaching cooked, count bytes copied, a newline copied (included) or an
\* EOT met (consumed, not copied, not counted); on return tail has advanced
\* past exactly the consumed bytes and full is cleared if a byte was consumed.
C6_ReadContract ==
  [][last'.op = "read" =>
       LET e == C6_Walk(ldisc_tail, <<>>, 0, last'.count) IN
       /\ last'.buf = e.buf
       /\ last'.ret = Len(e.buf)
       /\ ldisc_tail' = e.tail
       /\ ldisc_full' = IF e.consumed >= 1 THEN "0" ELSE ldisc_full]_vars

\* C7: ldisc_wait_read returns 0 only in a state where cooked data is
\* available (tail # cooked, or the buffer is full); a cancelled sleep makes
\* it return -EINTR; and no step of it changes tail, cooked, head, full or
\* the buffer.
C7_WaitRead ==
  [][/\ (last'.op = "wait" /\ last'.ret = 0)
          => (ldisc_tail' # ldisc_cooked' \/ ldisc_full' = "1")
     /\ (last'.op = "wait" /\ kt_wait[last'.who] = "cancelled")
          => last'.ret = 0 - EINTR
     /\ last'.op \in {"wait", "sleep"} => UNCHANGED ldiscVars]_vars

\* C8: from a freshly initialised line discipline, after 't' and newline,
\* head = tail + 2 and cooked = head, and a read of up to 10 bytes returns 2
\* and delivers "t\n"; in general a newline received while the buffer is not
\* full is stored at the old head, head advances by one circularly and cooked
\* becomes equal to head.
C8_Newline ==
  /\ [](trace = <<K("t"), K(NL)>>
          => ldisc_head = ldisc_tail + 2 /\ ldisc_cooked = ldisc_head)
  /\ [](trace = <<K("t"), K(NL), R(10)>>
          => last.ret = 2 /\ last.buf = <<"t", NL>>)
  /\ [][(last'.op = "key" /\ last'.c = NL /\ ldisc_full = "0") =>
          /\ ldisc_buffer' = [ldisc_buffer EXCEPT ![ldisc_head] = NL]
          /\ ldisc_head' = (ldisc_head + 1) % LDISC_BUFFER_SIZE
          /\ ldisc_cooked' = ldisc_head']_vars

\* C8 witness: the read that follows 't' and newline has delivered two bytes.
C8_Witness ==
  /\ trace = <<K("t"), K(NL), R(10)>>
  /\ last.op = "read"
  /\ last.ret = 2
  /\ ldisc_buffer[1] = NL

\* C9: a backspace with an uncommitted character (head # cooked) moves head
\* back by one and leaves tail, cooked and the bytes alone; a backspace with
\* head = cooked, and a backspace on a freshly initialised buffer, change
\* nothing at all; and a, b, BS, newline make the read return 2 with "a\n".
C9_Backspace ==
  /\ [][(last'.op = "key" /\ last'.c = BS) =>
          /\ ldisc_head = ldisc_cooked => UNCHANGED ldiscVars
          /\ trace = <<>> => UNCHANGED ldiscVars
          /\ (ldisc_head # ldisc_cooked /\ trace # <<>>) =>
               /\ ldisc_head' = (ldisc_head + LDISC_BUFFER_SIZE - 1) % LDISC_BUFFER_SIZE
               /\ UNCHANGED <<ldisc_tail, ldisc_cooked>>]_vars
  /\ [](trace = <<K("a"), K("b"), K(BS), K(NL), R(10)>>
          => last.ret = 2 /\ last.buf = <<"a", NL>>)

\* C10: from a freshly initialised buffer the inputs a, b, ETX, newline make
\* the first read return just "\n" and the second return "\n" again, and
\* neither 'a' nor 'b' is delivered.
C10_EtxBlankLine ==
  /\ [](trace = <<K("a"), K("b"), K(ETX), K(NL), R(10)>>
          => last.ret = 1 /\ last.buf = <<NL>>)
  /\ [](trace = <<K("a"), K("b"), K(ETX), K(NL), R(10), R(10)>>
          => last.ret = 1 /\ last.buf = <<NL>>)

\* C11: ordinary characters typed into the empty buffer (tail 0), however
\* many, are stored at most N-1 times: head stops at N-1, the bytes from head
\* on, buffer[N-1] among them, keep their initial NUL, a further ordinary
\* character changes nothing, and a newline typed then is stored in the
\* reserved slot, moving head to 0 with cooked = head.
C11_Overflow ==
  /\ [](last.c # NL =>
         /\ ldisc_tail = 0
         /\ ldisc_head <= LDISC_BUFFER_SIZE - 1
         /\ \A i \in Index : i >= ldisc_head => ldisc_buffer[i] = NUL
         /\ \A i \in Index : i < ldisc_head => ldisc_buffer[i] \in KeysFill)
  /\ [][(last'.op = "key" /\ last'.c \in KeysFill
          /\ ldisc_head = LDISC_BUFFER_SIZE - 1) => UNCHANGED ldiscVars]_vars
  /\ [][(last'.op = "key" /\ last'.c = NL /\ last.c # NL
          /\ ldisc_head = LDISC_BUFFER_SIZE - 1) =>
            /\ ldisc_buffer' =
                 [ldisc_buffer EXCEPT ![LDISC_BUFFER_SIZE - 1] = NL]
            /\ ldisc_head' = 0
            /\ ldisc_cooked' = ldisc_head']_vars

\* an ordinary character was typed at head = N-1 and did not land
C11_Witness ==
  /\ last.op = "key" /\ last.c \in KeysFill /\ last.echo = "none"
  /\ ldisc_head = LDISC_BUFFER_SIZE - 1
  /\ ldisc_buffer[LDISC_BUFFER_SIZE - 1] = NUL

(***************************************************************************)
(* Properties of the virtual memory.                                       *)
(***************************************************************************)

\* C2: copy-on-write isolation across fork.  A process that loads from a
\* page of a private mapping finds what it last stored there itself, or, if
\* it has not stored there since it was forked, what its parent's page held
\* at the fork (zeroes for a page never written): a store by the parent after
\* the fork is not seen by the child, and a store by the child is not seen by
\* the parent.  view holds that expected content per process and page.
C2_CowIsolation ==
  (last.op = "load" /\ view[last.who][last.page] \in {ZERO} \cup Vals)
    => (last.ret = 0 /\ last.arg = view[last.who][last.page])

C3_Covers(k, a, pg) == k.vmarea[a].vma_start <= pg /\ pg < k.vmarea[a].vma_end

C3_Overlap(k, a, b) == \E pg \in 0 .. (SIZE_T_MOD - 1) : C3_Covers(k, a, pg) /\ C3_Covers(k, b, pg)

C3_Areas(k, m) == {vmm_areas(k, m)[i] : i \in 1 .. Len(vmm_areas(k, m))}

\* C3: after any sequence of vmmap_map and vmmap_remove calls on the map of
\* a process, MAP_FIXED mappings at a nonzero lopage included, no two distinct
\* vmareas on the list of the map have a page in common.
C3_NoOverlap ==
  \A a, b \in C3_Areas(Kernel, proc[1].p_vmmap) :
    a # b => ~C3_Overlap(Kernel, a, b)

C5_KernelNext ==
  [vmarea |-> vmarea', l_next |-> l_next', l_prev |-> l_prev', vmmap |-> vmmap',
   mobj |-> mobj', proc |-> proc', pml4 |-> pml4', panic |-> panic']

\* the child's copy c of the parent's area a, and for a private area the
\* shadow pair: the parent's and the child's object are two new shadows of
\* the object the area had before the fork
C5_AreaCloned(k, k2, a, c) ==
  /\ k2.vmarea[c].vma_start = k.vmarea[a].vma_start
  /\ k2.vmarea[c].vma_end = k.vmarea[a].vma_end
  /\ k2.vmarea[c].vma_off = k.vmarea[a].vma_off
  /\ k2.vmarea[c].vma_prot = k.vmarea[a].vma_prot
  /\ k2.vmarea[c].vma_flags = k.vmarea[a].vma_flags
  /\ IF "PRIVATE" \in k.vmarea[a].vma_flags
     THEN /\ k2.vmarea[a].vma_obj # k2.vmarea[c].vma_obj
          /\ \A o \in {k2.vmarea[a].vma_obj, k2.vmarea[c].vma_obj} :
               /\ o # 0
               /\ k.mobj[o].mo_type = "free"
               /\ k2.mobj[o].mo_type = "shadow"
               /\ k2.mobj[o].shadowed = k.vmarea[a].vma_obj
     ELSE k2.vmarea[c].vma_obj = k.vmarea[a].vma_obj

C5_Cloned(k, k2, pm, cm) ==
  /\ Len(vmm_areas(k2, cm)) = Len(vmm_areas(k, pm))
  /\ vmm_areas(k2, pm) = vmm_areas(k, pm)
  /\ \A i \in 1 .. Len(vmm_areas(k, pm)) :
       C5_AreaCloned(k, k2, vmm_areas(k, pm)[i], vmm_areas(k2, cm)[i])

C5_Untouched(k, k2, pm) ==
  /\ vmm_areas(k2, pm) = vmm_areas(k, pm)
  /\ \A i \in 1 .. Len(vmm_areas(k, pm)) :
       k2.vmarea[vmm_areas(k, pm)[i]] = k.vmarea[vmm_areas(k, pm)[i]]
  /\ k2.mobj = k.mobj

\* C5: do_fork is all-or-nothing for the parent.  When it returns a child
\* pid, the child's vmmap is a clone of the parent's (one area per parent
\* area, every private area with a new shadow pair) and the parent has no
\* user page table entry left; when it fails, the parent's areas, their
\* memory objects and the reference counts are what they were.
C5_ForkAllOrNothing ==
  [][last'.op = "fork" =>
       /\ last'.ret > 0 =>
            /\ C5_Cloned(Kernel, C5_KernelNext, proc[last'.who].p_vmmap,
                         proc'[last'.ret].p_vmmap)
            /\ DOMAIN pml4'[last'.who] \cap UserPages = {}
       /\ last'.ret < 0 =>
            C5_Untouched(Kernel, C5_KernelNext, proc[last'.who].p_vmmap)]_vars

\* the range [lopage, lopage + npages) lies strictly inside area a
C12_Inside(a, lopage, npages) ==
  vmarea[a].vma_start < lopage /\ lopage + npages < vmarea[a].vma_end

\* area b is the upper part of area a after the removal of [lopage, endpage)
C12_Upper(a, b, lopage, endpage) ==
  /\ vmarea'[a] = [vmarea[a] EXCEPT !.vma_end = lopage]
  /\ vmarea'[b].vma_start = endpage
  /\ vmarea'[b].vma_end = vmarea[a].vma_end
  /\ vmarea'[b].vma_obj = vmarea[a].vma_obj
  /\ vmarea'[b].vma_off = vmarea[a].vma_off + (endpage - vmarea[a].vma_start)

\* the same, the object offset of the upper part left aside
C12_UpperNoOff(a, b, lopage, endpage) ==
  /\ vmarea'[a] = [vmarea[a] EXCEPT !.vma_end = lopage]
  /\ vmarea'[b].vma_start = endpage
  /\ vmarea'[b].vma_end = vmarea[a].vma_end
  /\ vmarea'[b].vma_obj = vmarea[a].vma_obj

C12_Step(a) ==
  /\ last'.op = "unmap" /\ last'.ret = 0
  /\ a \in C3_Areas(Kernel, proc[1].p_vmmap)
  /\ C12_Inside(a, last'.page, last'.arg)

\* C12: a vmmap_remove of a range strictly inside an area leaves the lower
\* part [start, lopage) with its vma_off and adds exactly one area, the upper
\* part [lopage + npages, end), on the same mobj and with vma_off advanced by
\* its distance from the original start.
C12_SplitOffset ==
  [][\A a \in AreaIds : C12_Step(a) =>
       \E b \in AreaIds \ C3_Areas(Kernel, proc[1].p_vmmap) :
         /\ C3_Areas(C5_KernelNext, proc[1].p_vmmap)
              = C3_Areas(Kernel, proc[1].p_vmmap) \cup {b}
         /\ C12_Upper(a, b, last'.page, last'.page + last'.arg)]_vars

\* what does hold of the split: two parts on the same mobj
C12_SplitParts ==
  [][\A a \in AreaIds : C12_Step(a) =>
       \E b \in AreaIds \ C3_Areas(Kernel, proc[1].p_vmmap) :
         /\ C3_Areas(C5_KernelNext, proc[1].p_vmmap)
              = C3_Areas(Kernel, proc[1].p_vmmap) \cup {b}
         /\ C12_UpperNoOff(a, b, last'.page, last'.page + last'.arg)]_vars

\* the n pages from s on are unmapped and inside the user range
C13_Fits(s, n) ==
  /\ USER_MEM_LOW_PN <= s /\ s + n <= USER_MEM_HIGH_PN
  /\ \A pg \in s .. (s + n - 1) :
       \A a \in C3_Areas(Kernel, proc[1].p_vmmap) : ~C3_Covers(Kernel, a, pg)

C13_Starts(n) == {s \in UserPages : C13_Fits(s, n)}

C13_Max(S) == CHOOSE x \in S : \A y \in S : y <= x

C13_Expected(n, dir) ==
  IF C13_Starts(n) = {} THEN SizeT(0 - 1)
  ELSE IF dir = "HILO" THEN C13_Max(C13_Starts(n)) ELSE Min(C13_Starts(n))

\* C13: vmmap_find_range(map, n, dir) returns the highest (HILO) or lowest
\* (LOHI) start s whose n pages are unmapped and inside [USER_MEM_LOW_PN,
\* USER_MEM_HIGH_PN), and -1 when there is none.
C13_FindRange ==
  (last.op = "find_range" /\ ~panic) => last.ret = C13_Expected(last.page, last.arg)

\* the same for the direction LOHI alone
C13_FindRangeLohi ==
  (last.op = "find_range" /\ ~panic /\ last.arg = "LOHI")
    => last.ret = C13_Expected(last.page, last.arg)

\* some area of the map of the first process has a page in [s, s + n)
C14_Intersects(s, n) ==
  \E a \in C3_Areas(Kernel, proc[1].p_vmmap) :
    \E pg \in s .. (s + n - 1) : C3_Covers(Kernel, a, pg)

\* C14: vmmap_is_range_empty(map, start, n) returns 1 exactly when no vmarea
\* of the map intersects [start, start + n), and 0 otherwise, wherever the
\* area lies relative to the range.
C14_RangeEmpty ==
  (last.op = "range_empty" /\ ~panic) =>
    /\ last.ret \in {0, 1}
    /\ last.ret = 1 <=> ~C14_Intersects(last.page, last.arg)

\* the same for the areas that do not strictly contain the range
C14_RangeEmptyEdge ==
  (/\ last.op = "range_empty" /\ ~panic
   /\ \A a \in C3_Areas(Kernel, proc[1].p_vmmap) :
        ~(/\ vmarea[a].vma_start < last.page
          /\ last.page + last.arg < vmarea[a].vma_end)) =>
    /\ last.ret \in {0, 1}
    /\ last.ret = 1 <=> ~C14_Intersects(last.page, last.arg)

\* the area vmmap_lookup finds for the faulting page of the step, 0 for none
C15_Area == vmmap_lookup(Kernel, proc[last'.who].p_vmmap, last'.page).area

\* the protection the claim requires for the cause of the fault
C15_Needed(cause) ==
  IF "WRITE" \in cause THEN "WRITE"
  ELSE IF "EXEC" \in cause THEN "EXEC" ELSE "READ"

C15_Resolvable ==
  /\ USER_MEM_LOW_PN <= last'.page /\ last'.page <= USER_MEM_HIGH_PN
  /\ C15_Area # 0
  /\ vmarea[C15_Area].vma_prot # PROT_NONE
  /\ C15_Needed(last'.arg) \in vmarea[C15_Area].vma_prot

C15_Resolved ==
  /\ proc'[last'.who].p_state = "running"
  /\ pte_allows(C5_KernelNext, last'.who, last'.page, "WRITE" \in last'.arg)

C15_Killed ==
  /\ proc'[last'.who].p_state = "dead"
  /\ proc'[last'.who].p_status = EFAULT
  /\ pml4' = pml4

\* C15: handle_pagefault installs a page table entry and leaves the process
\* running exactly when the page is in the user range, an area contains it
\* and the area's protection contains PROT_WRITE for a write fault, PROT_EXEC
\* for an exec fault, PROT_READ otherwise; in every other case the process is
\* terminated with status EFAULT and the page table is unchanged.
C15_Pagefault ==
  [][(last'.op = "fault" /\ ~panic') =>
       IF C15_Resolvable THEN C15_Resolved ELSE C15_Killed]_vars

\* what does hold: a fault is either resolved or fatal, and it is resolved
\* exactly when it is resolvable and the area is readable as well
C15_PagefaultRead ==
  [][(last'.op = "fault" /\ ~panic') =>
       IF C15_Resolvable /\ "READ" \in vmarea[C15_Area].vma_prot
       THEN C15_Resolved ELSE C15_Killed]_vars

\* the members vmmap_clone copies from area a to its copy c
C16_SameFields(k, k2, a, c) ==
  /\ k2.vmarea[c].vma_start = k.vmarea[a].vma_start
  /\ k2.vmarea[c].vma_end = k.vmarea[a].vma_end
  /\ k2.vmarea[c].vma_off = k.vmarea[a].vma_off
  /\ k2.vmarea[c].vma_prot = k.vmarea[a].vma_prot
  /\ k2.vmarea[c].vma_flags = k.vmarea[a].vma_flags

\* a shared area: the copy is on the same object, which has one more reference
C16_SharedCloned(k, k2, a, c) ==
  /\ k2.vmarea[c].vma_obj = k.vmarea[a].vma_obj
  /\ k2.vmarea[a].vma_obj = k.vmarea[a].vma_obj
  /\ k2.mobj[k.vmarea[a].vma_obj].mo_refcount
       = k.mobj[k.vmarea[a].vma_obj].mo_refcount + 1

\* a private area: the area and its copy are on two new shadows of the
\* object the area had, which has lost the area's reference and gained those
\* of the shadows (shadow_create takes one, two when the object is its own
\* bottom object)
C16_PrivateCloned(k, k2, a, c) ==
  /\ k2.vmarea[a].vma_obj # k2.vmarea[c].vma_obj
  /\ \A o \in {k2.vmarea[a].vma_obj, k2.vmarea[c].vma_obj} :
       /\ o # 0
       /\ k.mobj[o].mo_type = "free"
       /\ k2.mobj[o].mo_type = "shadow"
       /\ k2.mobj[o].shadowed = k.vmarea[a].vma_obj
  /\ k2.mobj[k.vmarea[a].vma_obj].mo_refcount
       = k.mobj[k.vmarea[a].vma_obj].mo_refcount - 1
         + 2 * (IF k.mobj[k.vmarea[a].vma_obj].mo_type = "shadow" THEN 1 ELSE 2)

C16_AreaCloned(k, k2, a, c) ==
  /\ C16_SameFields(k, k2, a, c)
  /\ IF "SHARED" \in k.vmarea[a].vma_flags
     THEN C16_SharedCloned(k, k2, a, c)
     ELSE C16_PrivateCloned(k, k2, a, c)

\* C16: vmmap_clone returns a new map with one area per source area, in
\* the same order and with the same start, end, offset, protection and flags;
\* a SHARED area's copy references the source's mobj, whose refcount grows by
\* one; a PRIVATE area and its copy get two new shadows of the area's mobj.
C16_Clone ==
  [][(last'.op = "clone" /\ last'.ret # 0 /\ ~panic') =>
       /\ last'.ret \notin {m \in MapIds : vmmap[m].used}
       /\ vmm_areas(C5_KernelNext, proc[1].p_vmmap) = vmm_areas(Kernel, proc[1].p_vmmap)
       /\ Len(vmm_areas(C5_KernelNext, last'.ret)) = Len(vmm_areas(Kernel, proc[1].p_vmmap))
       /\ \A i \in 1 .. Len(vmm_areas(Kernel, proc[1].p_vmmap)) :
            C16_AreaCloned(Kernel, C5_KernelNext,
                           vmm_areas(Kernel, proc[1].p_vmmap)[i],
                           vmm_areas(C5_KernelNext, last'.ret)[i])]_vars

\* the same for the maps whose areas are all private
C16_ClonePrivate ==
  [][(/\ last'.op = "clone" /\ last'.ret # 0 /\ ~panic'
      /\ \A i \in 1 .. Len(vmm_areas(Kernel, proc[1].p_vmmap)) :
           "SHARED" \notin vmarea[vmm_areas(Kernel, proc[1].p_vmmap)[i]].vma_flags) =>
       /\ Len(vmm_areas(C5_KernelNext, last'.ret)) = Len(vmm_areas(Kernel, proc[1].p_vmmap))
       /\ \A i \in 1 .. Len(vmm_areas(Kernel, proc[1].p_vmmap)) :
            C16_AreaCloned(Kernel, C5_KernelNext,
                           vmm_areas(Kernel, proc[1].p_vmmap)[i],
                           vmm_areas(C5_KernelNext, last'.ret)[i])]_vars

\* C17: after mapping a PROT_READ|PROT_WRITE, MAP_PRIVATE|MAP_ANON region,
\* a vmmap_write of a string that fits in the region returns 0, and the
\* vmmap_read of the same range that follows it returns 0 and the string.
C17_WriteRead ==
  /\ last.op = "write" => (~panic /\ last.ret = 0)
  /\ last.op = "read" => (~panic /\ last.ret = 0 /\ last.arg[2] = last.arg[1])

\* the string of count bytes at vaddr ends before the last byte of its area
C17_EndsInside(vaddr, count) ==
  \E a \in C3_Areas(Kernel, proc[1].p_vmmap) :
    /\ vmarea[a].vma_start * PAGE_SIZE <= vaddr
    /\ vaddr + count < vmarea[a].vma_end * PAGE_SIZE

\* the same for the strings that end before the end of the region
C17_WriteReadInside ==
  /\ (last.op = "write" /\ C17_EndsInside(last.page, Len(last.arg)))
       => (~panic /\ last.ret = 0)
  /\ (last.op = "read" /\ C17_EndsInside(last.page, Len(last.arg[1])))
       => (~panic /\ last.ret = 0 /\ last.arg[2] = last.arg[1])

\* the first process has no heap yet
C18_NoHeap ==
  /\ proc[1].p_brk = proc[1].p_start_brk
  /\ vmm_areas(Kernel, proc[1].p_vmmap) = <<>>

\* the heap brk(start_brk + PAGE_SIZE) made for a process that had none
C18_FirstHeap ==
  /\ proc[1].p_brk = PAGE_ALIGN_UP(proc[1].p_start_brk + PAGE_SIZE)
  /\ Len(vmm_areas(Kernel, proc[1].p_vmmap)) = 1

C18_Unchanged ==
  /\ proc' = proc
  /\ vmm_areas(C5_KernelNext, proc[1].p_vmmap) = vmm_areas(Kernel, proc[1].p_vmmap)
  /\ vmarea' = vmarea

\* do_brk(start_brk) for a process with no heap: success, nothing changes
C18_Noop ==
  (last'.op = "brk" /\ C18_NoHeap /\ last'.arg = proc[1].p_start_brk)
    => (last'.ret = 0 /\ C18_Unchanged)

\* do_brk(start_brk + PAGE_SIZE) for a process with no heap: one heap area
C18_Create ==
  (last'.op = "brk" /\ C18_NoHeap /\ last'.arg = proc[1].p_start_brk + PAGE_SIZE)
    => (last'.ret = 0 /\ Len(vmm_areas(C5_KernelNext, proc[1].p_vmmap)) = 1)

\* do_brk(start_brk) after that: the heap area ends lower than before
C18_Shrink ==
  (last'.op = "brk" /\ C18_FirstHeap /\ last'.arg = proc[1].p_start_brk)
    => /\ last'.ret = 0
       /\ Len(vmm_areas(C5_KernelNext, proc[1].p_vmmap)) <= 1
       /\ \A a \in C3_Areas(C5_KernelNext, proc[1].p_vmmap) :
            vmarea'[a].vma_end < vmarea[a].vma_end

\* do_brk(USER_MEM_HIGH + 1): -ENOMEM, nothing changes
C18_TooHigh ==
  (last'.op = "brk" /\ last'.arg = USER_MEM_HIGH + 1)
    => (last'.ret = 0 - ENOMEM /\ C18_Unchanged)

\* C18: for a process with no heap yet do_brk(start_brk) succeeds and creates
\* no vmarea and leaves p_brk; do_brk(start_brk + PAGE_SIZE) creates exactly
\* one heap vmarea, which a following do_brk(start_brk) shrinks; and
\* do_brk(USER_MEM_HIGH + 1) returns -ENOMEM and changes neither p_brk nor
\* the map.
C18_Brk == [][C18_Noop /\ C18_Create /\ C18_Shrink /\ C18_TooHigh]_vars

\* the same without the call do_brk(start_brk) of a process with no heap
C18_BrkRest == [][C18_Create /\ C18_Shrink /\ C18_TooHigh]_vars

(***************************************************************************)
(* C19: what namev_dir is to return.  The components of a path are its     *)
(* maximal runs of characters other than '/'.                              *)
(***************************************************************************)
RECURSIVE C19_Split(_, _, _, _)
C19_Split(path, i, cur, acc) ==
  IF i > Len(path) THEN (IF cur = <<>> THEN acc ELSE Append(acc, cur))
  ELSE IF path[i] = "/"
  THEN C19_Split(path, i + 1, <<>>, IF cur = <<>> THEN acc ELSE Append(acc, cur))
  ELSE C19_Split(path, i + 1, Append(cur, path[i]), acc)

C19_Components(path) == C19_Split(path, 1, <<>>, <<>>)

\* the directory reached from v by the first n of the components, 0 if none
RECURSIVE C19_Walk(_, _, _, _)
C19_Walk(f, v, comps, n) ==
  IF n = 0 THEN v
  ELSE Bind(C19_Walk(f, v, comps, n - 1), LAMBDA d :
         IF d = 0 THEN 0 ELSE fs_lookup_target(f, d, comps[n]))

C19_Start(c) == IF c.path[1] = "/" THEN fs_root ELSE c.base

C19_Parent(c) ==
  Bind(C19_Components(c.path), LAMBDA comps :
    C19_Walk(c.before, C19_Start(c), comps,
             IF comps = <<>> THEN 0 ELSE Len(comps) - 1))

C19_Basename(c) ==
  Bind(C19_Components(c.path), LAMBDA comps :
    IF comps = <<>> THEN <<>> ELSE comps[Len(comps)])

\* the directory is unlocked and has exactly one reference more than before
C19_Referenced(c) ==
  /\ ~fs.fault
  /\ \A v \in VnodeIds :
       /\ ~fs.vnode[v].vn_locked
       /\ fs.vnode[v].vn_refcount =
            c.before.vnode[v].vn_refcount + (IF v = c.dir THEN 1 ELSE 0)

C19_Expected(c) ==
  IF c.path = <<>> THEN c.ret = 0 - EINVAL
  ELSE C19_Parent(c) # 0 =>
         /\ c.ret = 0
         /\ c.dir = C19_Parent(c)
         /\ c.name = C19_Basename(c)
         /\ C19_Referenced(c)

\* C19: namev_dir(base, path) starts at the root iff path begins with '/',
\* ignores repeated and trailing slashes, and returns the directory that
\* would contain the last component and that component as name/namelen; on
\* success the directory is unlocked and has one new reference; an empty
\* path gives -EINVAL.
C19_NamevDir == last.op = "namev_dir" => C19_Expected(last)

\* a path whose last component is "." and that ends with a slash
C19_DotSlash(path) ==
  /\ path # <<>>
  /\ path[Len(path)] = "/"
  /\ C19_Basename([path |-> path]) = <<".">>

\* What does hold: the same for every path but those of C19_DotSlash, for
\* which the name returned is empty.
C19_NamevDirRest ==
  last.op = "namev_dir" =>
    IF C19_DotSlash(last.path)
    THEN C19_Parent(last) # 0 => last.ret = 0 /\ last.name = <<>>
    ELSE C19_Expected(last)

\* the two examples of the claim, in this tree
C19_Examples ==
  /\ last.op = "namev_dir" /\ last.path = <<"/", "a", "/", "a", "/", "a", "/">>
       => last.ret = 0 /\ last.dir = 3 /\ last.name = <<"a">>
  /\ last.op = "namev_dir" /\ last.path = <<"a", "/", ".", ".", "/", "/", ".">>
       /\ last.base \in {1, 2}
       => last.ret = 0 /\ last.dir = last.base /\ last.name = <<".">>

(***************************************************************************)
(* C20: do_rmdir and the last component of its path.                       *)
(***************************************************************************)
\* what namev_dir gave do_rmdir
C20_Namev(c) == namev_dir(c.before, c.base, c.path)

\* the rule of the claim, t being the basename token
C20_Rule(c, t) ==
  IF t = <<".">> THEN c.ret = 0 - EINVAL /\ c.called = <<>>
  ELSE IF t = <<".", ".">> THEN c.ret = 0 - ENOTEMPTY /\ c.called = <<>>
  ELSE c.called = <<t>>

\* C20: do_rmdir returns -EINVAL when the last component of the path is "."
\* and -ENOTEMPTY when it is "..", decided on the basename token, whatever
\* slashes follow it; a name that only ends in '.' is passed to the rmdir
\* operation; in both error cases no rmdir operation is called.
C20_Rmdir ==
  last.op = "rmdir" /\ C20_Namev(last).ret = 0 =>
    /\ C20_Rule(last, C20_Namev(last).name)
    /\ C20_Rule(last, C19_Basename(last))

\* What does hold: the decision is made on the last one or two characters
\* of the path, and the references taken are given back.
C20_RmdirTail ==
  last.op = "rmdir" /\ C20_Namev(last).ret = 0 =>
    /\ IF last.path[Len(last.path)] # "."
       THEN last.called = <<C20_Namev(last).name>>
       ELSE /\ last.called = <<>>
            /\ last.ret = IF path_at(last.path, Len(last.path) - 1,
                                     last.name[1]) = "."
                          THEN 0 - ENOTEMPTY ELSE 0 - EINVAL
    /\ ~fs.fault
    /\ \A v \in VnodeIds : fs.vnode[v] = last.before.vnode[v]

\* and the claim holds for the paths of two or more characters whose last
\* component has no '.' at its end or is the end of the path
C20_RmdirPlain ==
  last.op = "rmdir" /\ C20_Namev(last).ret = 0 /\ Len(last.path) >= 2
  /\ \/ last.path[Len(last.path)] = "." /\ C19_Basename(last) \in {<<".">>, <<".", ".">>}
     \/ C19_Basename(last) # <<>> /\ C19_Basename(last)[Len(C19_Basename(last))] # "."
  => C20_Rule(last, C19_Basename(last))

(***************************************************************************)
(* C21: do_dup2 of a descriptor onto itself.                               *)
(***************************************************************************)
C21_Same ==
  /\ last.op = "dup2"
  /\ last.fd = last.arg
  /\ last.fd \in Fds
  /\ last.before.p_files[last.fd] # 0

\* the file of the descriptor keeps its vnode and a reference after the close
\* inside do_dup2
C21_Kept(c) ==
  Bind(c.before.p_files[c.fd], LAMBDA file :
    /\ c.mid.file[file].f_refcount >= 1
    /\ c.mid.file[file].f_vnode = c.before.file[file].f_vnode
    /\ c.mid.vnode = c.before.vnode)

\* C21: do_dup2(fd, fd) on an open descriptor returns fd and leaves the
\* descriptor table, the file object and its reference count unchanged; the
\* file is not released in between.
C21_Dup2Same ==
  C21_Same => last.ret = last.fd /\ fs = last.before /\ C21_Kept(last)

C21_Witness == C21_Same /\ last.ret = last.fd /\ ~fs.fault

(***************************************************************************)
(* C22: do_lseek.                                                          *)
(***************************************************************************)
\* a call on an open descriptor
C22_Open(c) == c.fd \in Fds /\ c.before.p_files[c.fd] # 0

C22_Seek ==
  /\ last.op = "lseek"
  /\ C22_Open(last)
  /\ last.arg[2] \in {SEEK_SET, SEEK_CUR, SEEK_END}

\* the position asked for
C22_Target(c) ==
  IF c.arg[2] = SEEK_SET THEN c.arg[1]
  ELSE IF c.arg[2] = SEEK_CUR THEN FilePos(c.before, c.fd) + c.arg[1]
  ELSE c.before.vnode[c.before.file[c.before.p_files[c.fd]].f_vnode].vn_len
         + c.arg[1]

C22_Result(c) ==
  IF C22_Target(c) < 0
  THEN c.ret = 0 - EINVAL /\ FilePos(fs, c.fd) = FilePos(c.before, c.fd)
  ELSE c.ret = C22_Target(c) /\ FilePos(fs, c.fd) = C22_Target(c)

\* C22: do_lseek sets f_pos to, and returns, offset (SEEK_SET), f_pos + offset
\* (SEEK_CUR) or vn_len + offset (SEEK_END); when that is negative it returns
\* -EINVAL and leaves f_pos unchanged; this for every position, length and
\* offset, not only those that an int holds.
C22_Lseek == C22_Seek => C22_Result(last)

\* the position and the length before the call are values of an int
C22_InInt(c) ==
  /\ to_int(FilePos(c.before, c.fd)) = FilePos(c.before, c.fd)
  /\ to_int(C22_Target([c EXCEPT !.arg = <<0, SEEK_END>>])) =
       C22_Target([c EXCEPT !.arg = <<0, SEEK_END>>])

\* What does hold: the same when the position and the length fit in an int
C22_LseekInt == C22_Seek /\ C22_InInt(last) => C22_Result(last)

(***************************************************************************)
(* C23, C24: do_read, do_write and the position of the file.               *)
(***************************************************************************)
C23_File(c) == c.before.file[c.before.p_files[c.fd]]

C23_Len(f, c) == f.vnode[C23_File(c).f_vnode].vn_len

C23_Append ==
  /\ last.op = "write"
  /\ C22_Open(last)
  /\ FMODE_APPEND \in C23_File(last).f_mode
  /\ last.ret >= 0

\* C23: on a file opened with FMODE_APPEND every successful do_write writes
\* at the vnode's length, whatever f_pos was, and afterwards f_pos is the
\* vnode's new end.
C23_WriteAppends ==
  C23_Append =>
    /\ C23_Len(fs, last) = C23_Len(last.before, last) + last.ret
    /\ FilePos(fs, last.fd) = C23_Len(fs, last)

\* bytes were appended after the position had been moved back
C23_Witness ==
  /\ C23_Append
  /\ last.ret > 0
  /\ FilePos(last.before, last.fd) < C23_Len(last.before, last)
  /\ FilePos(fs, last.fd) = C23_Len(fs, last)

\* the position at which the transfer of a call is made
C24_At(c) ==
  IF c.op = "write" /\ FMODE_APPEND \in C23_File(c).f_mode
  THEN C23_Len(c.before, c) ELSE FilePos(c.before, c.fd)

C24_Transfer == last.op \in {"read", "write"} /\ C22_Open(last)

C24_Advanced(c) ==
  IF c.ret >= 0 THEN FilePos(fs, c.fd) = C24_At(c) + c.ret
  ELSE FilePos(fs, c.fd) = FilePos(c.before, c.fd)

\* C24: a do_read or do_write that reports n bytes advances f_pos by exactly
\* n from the position of the transfer, and one that returns an error leaves
\* f_pos unchanged.
C24_Position ==
  /\ C24_Transfer => C24_Advanced(last)
  /\ last.op \in {"read", "write"} /\ ~C22_Open(last) => fs = last.before

\* What does hold: the same but for a failed write on an FMODE_APPEND file,
\* which leaves f_pos at the vnode's length.
C24_PositionRest ==
  /\ C24_Transfer =>
       IF last.op = "write" /\ FMODE_APPEND \in C23_File(last).f_mode
          /\ last.ret < 0
       THEN FilePos(fs, last.fd) = C23_Len(last.before, last)
       ELSE C24_Advanced(last)
  /\ last.op \in {"read", "write"} /\ ~C22_Open(last) => fs = last.before

(***************************************************************************)
(* C25, C26: the null and the zero device.                                 *)
(***************************************************************************)
C25_Null == chardev_lookup(dev, MEM_NULL_DEVID)

\* C25: after memdevs_init the device registered under MEM_NULL_DEVID has a
\* null mmap entry, its read returns 0 and its write returns count; mapping
\* the null device never obtains a memory object.
C25_NullNoMmap ==
  /\ Registered(MEM_NULL_DEVID) => C25_Null.cd_ops.mmap = "NULL"
  /\ last.op = "read" /\ last.id = MEM_NULL_DEVID => last.ret = 0
  /\ last.op = "write" /\ last.id = MEM_NULL_DEVID => last.ret = last.count
  /\ last.op = "mmap" /\ last.id = MEM_NULL_DEVID => last.count = 0

\* What does hold: the null device is registered with the mmap of the zero
\* device; its read and write are as said, and no object is obtained because
\* zero_mmap gives none.
C25_NullRegistered ==
  /\ Registered(MEM_NULL_DEVID) =>
       /\ C25_Null.cd_ops.mmap = "zero_mmap"
       /\ C25_Null.cd_ops.read = null_dev_ops.read
       /\ C25_Null.cd_ops.write = null_dev_ops.write
  /\ last.op = "read" /\ last.id = MEM_NULL_DEVID =>
       last.ret = 0 /\ dev.buf = last.before.buf
  /\ last.op = "write" /\ last.id = MEM_NULL_DEVID => last.ret = last.count
  /\ last.op = "mmap" => last.count = 0 /\ last.ret < 0

C26_ZeroRead == last.op = "read" /\ last.id = MEM_ZERO_DEVID

\* C26: reading count bytes from the zero device sets each of the first
\* count bytes of the buffer to the byte 0, whatever the buffer held, and
\* returns count.
C26_Zeroes ==
  C26_ZeroRead =>
    /\ last.ret = last.count
    /\ \A i \in 1 .. last.count : dev.buf[i] = 0

\* What does hold: the first count bytes are the character '0', the others
\* are as before, and count is returned.
C26_CharZero ==
  C26_ZeroRead =>
    /\ last.ret = last.count
    /\ \A i \in 1 .. MaxBuf :
         dev.buf[i] = IF i <= last.count THEN CHAR_0 ELSE last.before.buf[i]

(***************************************************************************)
(* C27: what vmmap_remove leaves alone.                                    *)
(***************************************************************************)
\* the object and the object page that page pg of map m is mapped to, or
\* <<0, 0>> when no area covers it
C27_Backing(k, m, pg) ==
  IF \E a \in C3_Areas(k, m) : C3_Covers(k, a, pg)
  THEN Bind(CHOOSE a \in C3_Areas(k, m) : C3_Covers(k, a, pg), LAMBDA a :
         <<k.vmarea[a].vma_obj,
           k.vmarea[a].vma_off + (pg - k.vmarea[a].vma_start)>>)
  ELSE <<0, 0>>

C27_Removed == last'.op = "unmap" /\ last'.ret = 0

C27_Outside(pg) == pg < last'.page \/ pg >= last'.page + last'.arg

\* C27: vmmap_remove(map, lopage, n) changes nothing outside the removed
\* range: every page outside [lopage, lopage + n) is mapped after the call
\* iff it was mapped before, to the same mobj at the same object page.
C27_Frame ==
  [][C27_Removed =>
       \A pg \in UserPages :
         C27_Outside(pg) =>
           C27_Backing(C5_KernelNext, proc[1].p_vmmap, pg)
             = C27_Backing(Kernel, proc[1].p_vmmap, pg)]_vars

\* What does hold: the pages below the removed range keep their mapping.
C27_FrameBelow ==
  [][C27_Removed =>
       \A pg \in UserPages :
         pg < last'.page =>
           C27_Backing(C5_KernelNext, proc[1].p_vmmap, pg)
             = C27_Backing(Kernel, proc[1].p_vmmap, pg)]_vars

(***************************************************************************)
(* C28: the frames that shadow_get_pframe gives.                           *)
(***************************************************************************)
\* a frame of page last'.page was asked of the shadow object last'.who
C28_Asked(forwrite) ==
  /\ last'.op = "get_pframe"
  /\ last'.arg = forwrite
  /\ mobj[last'.who].mo_type = "shadow"
  /\ ~panic'

\* only object o has other frames than before
C28_OnlyIn(o) == \A x \in MobjIds \ {o} : mobj'[x].frames = mobj[x].frames

\* C28: get_pframe with forwrite set on shadow o returns a frame of o's own
\* page cache and neither creates nor changes a frame of the bottom object
\* or of another object of the chain; a later get_pframe for reading of the
\* same page through o returns that same frame.
C28_WriteOwn ==
  [][/\ C28_Asked(TRUE) =>
          /\ last'.ret = <<last'.who, last'.page>>
          /\ mobj_find_pframe(C5_KernelNext, last'.who, last'.page)
          /\ C28_OnlyIn(last'.who)
     /\ C28_Asked(FALSE) /\ mobj_find_pframe(Kernel, last'.who, last'.page) =>
          last'.ret = <<last'.who, last'.page>>]_vars

\* What does hold: the frame for writing is a frame of the bottom object of
\* o's chain, created there when absent, and o's cache is never filled; the
\* frame for reading is a frame of an object under o.
C28_WriteBottom ==
  [][/\ C28_Asked(TRUE) =>
          /\ last'.ret = <<mobj[last'.who].bottom_mobj, last'.page>>
          /\ mobj_find_pframe(C5_KernelNext, mobj[last'.who].bottom_mobj,
                              last'.page)
          /\ C28_OnlyIn(mobj[last'.who].bottom_mobj)
     /\ C28_Asked(FALSE) =>
          /\ last'.ret[1] # last'.who
          /\ last'.ret[2] = last'.page
          /\ C28_OnlyIn(last'.ret[1])]_vars

(***************************************************************************)
(* C29: reference counts of memory objects.                                *)
(***************************************************************************)
\* the areas on the lists of the maps
C29_Listed(k) == UNION {C3_Areas(k, m) : m \in {n \in MapIds : k.vmmap[n].used}}

C29_Live(k, o) == k.mobj[o].mo_type # "free"

\* the references to object o: one per listed area whose vma_obj it is, one
\* per live shadow that shadows it and one per live shadow whose bottom it is
C29_Refs(k, o) ==
  Cardinality({a \in C29_Listed(k) : k.vmarea[a].vma_obj = o})
  + Cardinality({s \in MobjIds : C29_Live(k, s) /\ k.mobj[s].shadowed = o})
  + Cardinality({s \in MobjIds : C29_Live(k, s) /\ k.mobj[s].bottom_mobj = o})

C29_Balanced(k) ==
  \A o \in MobjIds :
    /\ C29_Live(k, o) => k.mobj[o].mo_refcount = C29_Refs(k, o)
    /\ C29_Live(k, o) <=> C29_Refs(k, o) > 0

\* C29: after any sequence of vmmap_map, vmmap_remove, vmmap_clone,
\* vmmap_collapse and vmmap_destroy every mobj's reference count is the
\* number of vmareas whose vma_obj it is plus the shadowed and bottom
\* references of live shadows, and an object is destroyed exactly when that
\* number is zero.
C29_RefCounts == ~panic => C29_Balanced(Kernel)

\* the same count over every vmarea that is allocated, on a list or not
C29_Held(k, o) ==
  Cardinality({a \in AreaIds : k.vmarea[a].used /\ k.vmarea[a].vma_obj = o})
  + Cardinality({s \in MobjIds : C29_Live(k, s) /\ k.mobj[s].shadowed = o})
  + Cardinality({s \in MobjIds : C29_Live(k, s) /\ k.mobj[s].bottom_mobj = o})

C29_BalancedHeld(k) ==
  \A o \in MobjIds :
    /\ C29_Live(k, o) => k.mobj[o].mo_refcount = C29_Held(k, o)
    /\ C29_Live(k, o) <=> C29_Held(k, o) > 0

\* the collapse destroys an intermediate shadow
C29_Collapsing == last'.op = "collapse" /\ mobj' # mobj

\* What does hold: counted over the vmareas that are allocated, those an
\* unlinking left off every list included, the counts stay right in every
\* call but a collapse that takes a shadow out, which lets o shadow the
\* bottom object without a reference.
C29_RefCountsKept ==
  [][C29_BalancedHeld(Kernel) /\ ~panic' /\ ~C29_Collapsing
       => C29_BalancedHeld(C5_KernelNext)]_vars

(***************************************************************************)
(* C30: shadow_collapse and the reference count of what it removes.        *)
(***************************************************************************)
\* the shadow objects of the areas of process 1
C30_Tops(k) ==
  {k.vmarea[a].vma_obj : a \in C3_Areas(k, proc[1].p_vmmap)}
    \cap {o \in MobjIds : k.mobj[o].mo_type = "shadow"}

\* object x is shadowed by a live shadow other than o
C30_Shared(k, o, x) ==
  \E s \in MobjIds \ {o} : C29_Live(k, s) /\ k.mobj[s].shadowed = x

\* the collapse of o destroys the shadow under o, whose shadowed field the
\* loop reads after the mobj_put
C30_ReadAfterPut(o) ==
  /\ mobj[o].shadowed # 0
  /\ mobj[mobj[o].shadowed].mo_type = "shadow"
  /\ mobj'[mobj[o].shadowed].mo_type = "free"

\* C30: shadow_collapse(o) removes an intermediate shadow only if its
\* refcount is 1: in every state reached through vmmap_map, vmmap_clone and
\* vmmap_collapse the assertion on the refcount holds, no object that another
\* shadow still refers to is destroyed or loses its frames, no object is
\* accessed after it was destroyed, and on completion o.shadowed is o's
\* bottom object.
C30_Collapse ==
  [][last'.op = "collapse" =>
       /\ ~panic'
       /\ \A o \in C30_Tops(Kernel) :
            /\ mobj'[o].shadowed = mobj'[o].bottom_mobj
            /\ ~C30_ReadAfterPut(o)
            /\ \A x \in MobjIds :
                 C30_Shared(Kernel, o, x) => mobj'[x] = mobj[x]]_vars

\* What does hold: while every count is the number of references held, a
\* collapse of chains whose intermediate shadows all have refcount 1 does
\* not stop the kernel and leaves o.shadowed at the bottom object.
C30_CollapseUnshared ==
  [][/\ last'.op = "collapse"
     /\ C29_BalancedHeld(Kernel)
     /\ \A o \in C30_Tops(Kernel) :
          mobj[mobj[o].shadowed].mo_type = "shadow"
            => mobj[mobj[o].shadowed].mo_refcount = 1
     => /\ ~panic'
        /\ \A o \in C30_Tops(Kernel) :
             mobj'[o].shadowed = mobj'[o].bottom_mobj]_vars

(***************************************************************************)
(* C31: vmmap_remove and the page table.                                   *)
(***************************************************************************)
\* the pages of the range of the last vmmap_remove
C31_Range == {pg \in UserPages : last'.page <= pg /\ pg < last'.page + last'.arg}

\* the pages of the areas on the list of the map of process p
C31_Mapped(k, p) ==
  {pg \in UserPages : \E a \in C3_Areas(k, k.proc[p].p_vmmap) :
     k.vmarea[a].vma_start <= pg /\ pg < k.vmarea[a].vma_end}

\* C31: after vmmap_remove(map, lopage, n) returns, pt_unmap_range has been
\* applied to every page of [lopage, lopage + n) that was mapped before the
\* call, in each of the four overlap cases: no page table entry remains for
\* a page of the range, nor for a page that belongs to no vmarea.
C31_Unmapped ==
  [][C27_Removed /\ ~panic' =>
       /\ DOMAIN pml4'[last'.who] \cap C31_Range = {}
       /\ DOMAIN pml4[last'.who] \subseteq C31_Mapped(Kernel, last'.who)
            => DOMAIN pml4'[last'.who] \subseteq C31_Mapped(C5_KernelNext, last'.who)]_vars

\* the pages of the range in areas that the range covers or that contain
\* the range strictly inside
C31_CoveredOrSplit ==
  {pg \in C31_Range : \E a \in C3_Areas(Kernel, proc[last'.who].p_vmmap) :
     /\ vmarea[a].vma_start <= pg /\ pg < vmarea[a].vma_end
     /\ \/ /\ vmarea[a].vma_start >= last'.page
           /\ vmarea[a].vma_end <= last'.page + last'.arg
        \/ /\ vmarea[a].vma_start < last'.page
           /\ vmarea[a].vma_end > last'.page + last'.arg}

\* What does hold: the entries of the pages of a covered area and of the
\* hole cut into a split area are gone; the front and back cases pass
\* pt_unmap_range an empty range and no entry is removed by them.
C31_UnmappedCovered ==
  [][C27_Removed /\ ~panic'
       => DOMAIN pml4'[last'.who] \cap C31_CoveredOrSplit = {}]_vars

(***************************************************************************)
(* C32: readers asleep in ldisc_wait_read and cooked data.                 *)
(***************************************************************************)
C32_Asleep(t) == kt_wait[t] = "sleeping"

C32_Cooked == ldisc_tail # ldisc_cooked

\* C32: every reader sleeping in ldisc_wait_read is woken whenever cooked
\* advances (newline, EOT, the blank line of ETX): where a thread made
\* runnable is run in the end, no reader stays asleep forever while there
\* is cooked data between tail and cooked, two sleeping readers included.
C32_ReadersWoken ==
  /\ [][last'.op = "key" /\ ldisc_cooked' # ldisc_cooked =>
          \A t \in Readers : C32_Asleep(t) => kt_wait'[t] = "woken"]_vars
  /\ \A t \in Readers :
       (C32_Asleep(t) /\ C32_Cooked) ~> (~C32_Asleep(t) \/ ~C32_Cooked)

\* What does hold: a newline or an EOT that is accepted makes the first
\* thread of the read queue runnable and leaves the others asleep; ETX
\* makes none runnable.
C32_FirstWoken ==
  [][last'.op = "key" /\ ldisc_cooked' # ldisc_cooked =>
       IF last'.c \in {NL, EOT} /\ ldisc_read_queue # <<>>
       THEN /\ kt_wait'[Head(ldisc_read_queue)] = "woken"
            /\ ldisc_read_queue' = Tail(ldisc_read_queue)
            /\ \A t \in Readers \ {Head(ldisc_read_queue)} : kt_wait'[t] = kt_wait[t]
       ELSE UNCHANGED <<kt_wait, ldisc_read_queue>>]_vars

\* What does hold: a reader that was made runnable leaves the sleep.
C32_RunnableRuns ==
  \A t \in Readers : (kt_wait[t] \in {"woken", "cancelled"})
                       ~> (kt_wait[t] \in {"idle", "sleeping"})

(***************************************************************************)
(* C33: key presses and the cooked bytes not yet read.                     *)
(***************************************************************************)
\* the number of bytes in [tail, cooked): the whole buffer when it is full
C33_Count(tail, cooked, full) ==
  IF tail = cooked THEN (IF full = "1" THEN LDISC_BUFFER_SIZE ELSE 0)
  ELSE (cooked - tail + LDISC_BUFFER_SIZE) % LDISC_BUFFER_SIZE

\* the bytes in [tail, cooked), in order
C33_Readable(buffer, tail, cooked, full) ==
  [i \in 1 .. C33_Count(tail, cooked, full) |->
     buffer[(tail + i - 1) % LDISC_BUFFER_SIZE]]

\* C33: no input character changes or removes bytes that are cooked and not
\* yet read: in every call of ldisc_key_pressed, ETX and BS on a full buffer
\* or with no uncommitted data included, tail is unchanged and the bytes
\* readable in [tail, cooked) before the call are a prefix of those readable
\* after it.
C33_CookedKept ==
  [][last'.op = "key" =>
       /\ ldisc_tail' = ldisc_tail
       /\ IsPrefix(C33_Readable(ldisc_buffer, ldisc_tail, ldisc_cooked, ldisc_full),
                   C33_Readable(ldisc_buffer', ldisc_tail', ldisc_cooked',
                                ldisc_full'))]_vars

\* the blank line of ETX takes the last slot before tail
C33_EtxWraps == last'.c = ETX /\ ldisc_increment(ldisc_cooked) = ldisc_tail

\* What does hold: no key moves tail, and while cooked lies between tail and
\* head and the buffer is not full the cooked bytes stay as they are, with
\* new ones after them, but for an ETX whose blank line takes the last slot
\* before tail: cooked then meets tail and no byte is readable.
C33_CookedKeptOrdered ==
  [][last'.op = "key" =>
       /\ ldisc_tail' = ldisc_tail
       /\ C1_CursorOrder /\ ldisc_full = "0" /\ ~C33_EtxWraps
            => IsPrefix(C33_Readable(ldisc_buffer, ldisc_tail, ldisc_cooked,
                                     ldisc_full),
                        C33_Readable(ldisc_buffer', ldisc_tail', ldisc_cooked',
                                     ldisc_full'))]_vars

(***************************************************************************)
(* C34: the buffer that was filled completely.                             *)
(***************************************************************************)
\* full is set and head has met tail
C34_Filled == ldisc_full = "1" /\ ldisc_head = ldisc_tail

\* C34: a completely filled buffer remains usable: once N-1 ordinary
\* characters and a newline set full with head == tail, ldisc_wait_read
\* returns 0, ldisc_read with room for the buffer delivers bytes of it and
\* clears full, and full never stays set forever while a reader keeps
\* reading.
C34_FullUsable ==
  /\ [][C34_Filled /\ last'.op \in {"wait", "sleep"} =>
          last'.op = "wait" /\ last'.ret = 0]_vars
  /\ [][C34_Filled /\ last'.op = "read" =>
          /\ last'.ret > 0
          /\ IsPrefix(last'.buf,
                      C33_Readable(ldisc_buffer, ldisc_tail, ldisc_cooked, ldisc_full))
          /\ ldisc_full' = "0"]_vars
  /\ (ldisc_full = "1") ~> (ldisc_full = "0")

\* What does hold: the newline that sets full leaves head, tail and cooked
\* on one slot; ldisc_wait_read then returns 0, and ldisc_read, whose walk
\* from tail ends at cooked at once, returns 0 bytes and leaves full set.
C34_FullStuck ==
  /\ [][ldisc_full = "0" /\ ldisc_full' = "1" =>
          ldisc_head' = ldisc_tail' /\ ldisc_cooked' = ldisc_tail']_vars
  /\ [][C34_Filled /\ last'.op \in {"wait", "sleep"} =>
          last'.op = "wait" /\ last'.ret = 0]_vars
  /\ [][C34_Filled /\ ldisc_cooked = ldisc_tail /\ last'.op = "read" =>
          last'.ret = 0 /\ UNCHANGED ldiscVars]_vars

(***************************************************************************)
(* C35: vmmap_map with lopage 0 when no range is free.                     *)
(***************************************************************************)
\* the call is vmmap_map with lopage 0 and vmmap_find_range finds no range
C35_NoRange ==
  /\ last'.op = "map" /\ last'.page = 0
  /\ vmmap_find_range(Kernel, proc[last'.who].p_vmmap, last'.arg, "HILO").ret
       = SizeT(0 - 1)

\* C35: vmmap_map with lopage 0 picks its start with vmmap_find_range and,
\* when that returns -1, returns -ENOMEM without inserting an area, without
\* taking or leaking a memory object and without changing the map.
C35_NoRangeEnomem ==
  [][C35_NoRange => last'.ret = 0 - ENOMEM /\ C5_KernelNext = Kernel]_vars

\* What does hold: the -1 is taken for a start page. Unless vmarea_alloc
\* fails, the call returns 0 with a new area that starts at page (size_t)-1
\* on the list, and with a new anonymous object and its shadow.
C35_NoRangeMapped ==
  [][C35_NoRange /\ ~panic' =>
       IF FreeAreas(Kernel) = {}
       THEN last'.ret = 0 - ENOMEM /\ C5_KernelNext = Kernel
       ELSE /\ last'.ret = 0
            /\ \E a \in C3_Areas(C5_KernelNext, proc[last'.who].p_vmmap) :
                 /\ ~vmarea[a].used
                 /\ vmarea'[a].vma_start = SizeT(0 - 1)
                 /\ vmarea'[a].vma_end = SizeT(SizeT(0 - 1) + last'.arg)
                 /\ mobj'[vmarea'[a].vma_obj].mo_type = "shadow"
                 /\ mobj[vmarea'[a].vma_obj].mo_type = "free"]_vars

(***************************************************************************)
(* C36: vmmap_insert of an area disjoint from the areas of the map.        *)
(***************************************************************************)
\* the area that the last vmmap_map allocated
C36_New == {a \in AreaIds : ~vmarea[a].used /\ vmarea'[a].used}

\* area a, as the call left it, shares no page with the areas that were on
\* the list of map m
C36_Disjoint(a, m) ==
  \A b \in C3_Areas(Kernel, m) :
    vmarea'[a].vma_end <= vmarea[b].vma_start \/ vmarea[b].vma_end <= vmarea'[a].vma_start

\* the list s holds each of its areas once, in ascending order of vma_start
C36_Sorted(k, s) ==
  \A i, j \in 1 .. Len(s) :
    i < j => s[i] # s[j] /\ k.vmarea[s[i]].vma_start < k.vmarea[s[j]].vma_start

\* the list of map m after the call: area a and every area that was there,
\* each once, sorted
C36_Inserted(a, m) ==
  /\ Len(vmm_areas(C5_KernelNext, m)) = Len(vmm_areas(Kernel, m)) + 1
  /\ C3_Areas(C5_KernelNext, m) = C3_Areas(Kernel, m) \cup {a}
  /\ C36_Sorted(C5_KernelNext, vmm_areas(C5_KernelNext, m))

\* a successful vmmap_map that inserted area a into the list of map m, which
\* was sorted
C36_Insert(a, m) ==
  /\ last'.op = "map" /\ last'.ret = 0 /\ ~panic'
  /\ a \in C36_New
  /\ m = proc[last'.who].p_vmmap
  /\ C36_Sorted(Kernel, vmm_areas(Kernel, m))
  /\ C36_Disjoint(a, m)

\* C36: after vmmap_insert(map, new_vma) with new_vma disjoint from the
\* existing areas the list of the map holds new_vma once and every previous
\* area once, sorted in ascending order of vma_start, wherever the new area
\* goes: into an empty list, before the first area, between two, after the
\* last.
C36_InsertSorted ==
  [][\A a \in AreaIds, m \in MapIds : C36_Insert(a, m) => C36_Inserted(a, m)]_vars

\* every area of the list ends below the start of the new area
C36_AfterLast(a, m) ==
  \A b \in C3_Areas(Kernel, m) : vmarea[b].vma_end < vmarea'[a].vma_start

\* What does hold: an area that goes into an empty list, or after the last
\* area without touching it, is linked once at the tail; every other
\* position links it more than once and areas leave the forward list.
C36_InsertAtTail ==
  [][\A a \in AreaIds, m \in MapIds :
       C36_Insert(a, m) /\ C36_AfterLast(a, m) => C36_Inserted(a, m)]_vars

(***************************************************************************)
(* C37: the heap after any sequence of do_brk calls.                       *)
(***************************************************************************)
\* the areas of the process, which has no mapping but its heap
C37_Heap == vmm_areas(Kernel, proc[1].p_vmmap)

\* at most one area, and the break between its start and USER_MEM_HIGH
C37_HeapShape ==
  /\ Len(C37_Heap) <= 1
  /\ proc[1].p_start_brk <= proc[1].p_brk
  /\ proc[1].p_brk <= USER_MEM_HIGH

\* a call with an address from the starting break to USER_MEM_HIGH
C37_InRange ==
  /\ last'.op = "brk" /\ ~panic'
  /\ last'.arg # 0
  /\ proc[1].p_start_brk <= last'.arg /\ last'.arg <= USER_MEM_HIGH

\* a call that failed
C37_Failed == last'.op = "brk" /\ ~panic' /\ last'.ret < 0

\* C37: after any sequence of do_brk calls the heap is at most one vmarea
\* and p_start_brk <= p_brk <= USER_MEM_HIGH; a call with an address in
\* that range fails with -ENOMEM only if growing would overlap a mapping
\* other than the heap (there is none here, so it succeeds: grown, shrunk
\* back to p_start_brk and grown again included), and a failed call leaves
\* p_brk and the map unchanged.
C37_Brk ==
  /\ []C37_HeapShape
  /\ [][C37_InRange => last'.ret = 0]_vars
  /\ [][C37_Failed => C5_KernelNext = Kernel]_vars

\* What does hold: the shape, and that a failed call changes nothing. A call
\* in the range fails only in the branch that creates the heap, taken
\* whenever p_brk equals p_start_brk, when the area of an earlier call is
\* still at the starting break.
C37_BrkCreateFails ==
  /\ []C37_HeapShape
  /\ [][C37_InRange /\ last'.ret # 0 =>
          /\ last'.ret = 0 - ENOMEM
          /\ proc[1].p_brk = proc[1].p_start_brk
          /\ Len(C37_Heap) = 1]_vars
  /\ [][C37_Failed => C5_KernelNext = Kernel]_vars


(***************************************************************************)
(* C38: the calls on the mobj mutexes are balanced.                        *)
(***************************************************************************)
\* the flags of every mapping of SpecCollapse
C38_MapFlags == {"PRIVATE", "ANON"}

\* the mutex calls of the call that last' records, made in the state before
C38_Calls ==
  CASE last'.op = "map" ->
         vmmap_map_mutex(Kernel, proc[last'.who].p_vmmap, last'.page, last'.arg,
                         Flags(C38_MapFlags, last'.page), "HILO")
    [] last'.op = "clone" -> vmmap_clone_mutex(Kernel, proc[last'.who].p_vmmap)
    [] last'.op = "collapse" ->
         vmmap_collapse_mutex(Kernel, vmm_areas(Kernel, proc[last'.who].p_vmmap),
                              1, last'.arg)
    [] last'.op = "get_pframe" ->
         mobj_get_pframe_mutex(Kernel, last'.who, last'.page, last'.arg)
    [] OTHER -> <<>>

C38_Mutex == mutex_run(mutex_none, C38_Calls)

\* C38: along every call of vmmap_map, vmmap_clone, vmmap_collapse and
\* get_pframe no mutex is locked by the thread that holds it, every unlock is
\* of a mutex the thread holds, on an object that exists, and on return no
\* mutex is held: also when the allocation of an object fails.
C38_MutexBalanced ==
  [][C38_Mutex.bad = "none" /\ C38_Mutex.held = {}]_vars

\* a call that locked and unlocked at least two mutexes
C38_Locked == last.op \in {"map", "clone"} /\ last.ret # 0 /\ ~panic

\* an allocation of a memory object failed in the call
C38_AllocFailed ==
  /\ last'.op \in {"map", "clone"}
  /\ Cardinality(FreeMobjs(Kernel)) < 2

\* What does hold: while the reference counts are those of C29, the only
\* misuse is the unlock of the null pointer that a failed anon_create or
\* shadow_create returned, in vmmap_map and vmmap_clone; no call locks a
\* mutex twice or returns with a mutex held.
C38_MutexBalancedAlloc ==
  [][~panic /\ C29_BalancedHeld(Kernel) =>
       /\ C38_Mutex.held = {}
       /\ C38_Mutex.bad \in {"none", "unlock of null"}
       /\ C38_Mutex.bad = "unlock of null" => C38_AllocFailed]_vars


(***************************************************************************)
(* C39: the path functions give back every vnode reference and lock.       *)
(***************************************************************************)
C39_Calls == {"namev_dir", "namev_open", "mknod", "mkdir", "rmdir", "unlink",
              "link", "rename", "stat", "chdir"}

\* the change of the reference count of vnode v that the call of last' is
\* allowed: the reference that namev_dir and namev_open return, and the old
\* and the new working directory of do_chdir
C39_Delta(v) ==
  IF last'.op \in {"namev_dir", "namev_open"} /\ last'.ret = 0
  THEN (IF v = last'.dir THEN 1 ELSE 0)
  ELSE IF last'.op = "chdir" /\ last'.ret = 0
  THEN (IF v = fs'.p_cwd THEN 1 ELSE 0) - (IF v = fs.p_cwd THEN 1 ELSE 0)
  ELSE 0

C40_Slots(f, file) == {fd \in Fds : f.p_files[fd] = file}

\* the files that hold a reference to vnode v
C40_FilesOf(f, v) ==
  {file \in FileIds : f.file[file].f_refcount > 0 /\ f.file[file].f_vnode = v}

\* every file is counted once per descriptor, is released when it has none,
\* and holds one reference to its vnode until then
C40_Counted(f) ==
  /\ \A file \in FileIds :
       /\ f.file[file].f_refcount = Cardinality(C40_Slots(f, file))
       /\ C40_Slots(f, file) = {} <=> f.file[file] = file_none
  /\ \A v \in DOMAIN f.vnode :
       f.vnode[v].vn_refcount
         = fs_boot.vnode[v].vn_refcount + Cardinality(C40_FilesOf(f, v))

\* C40: after any sequence of do_dup, do_dup2, do_close and do_getdent each
\* open file's reference count is the number of descriptors that point to
\* it and the file is released exactly when its last descriptor is closed;
\* a call that fails with -EBADF leaves the table and every reference count
\* as they were.
C40_RefsAreSlots ==
  /\ ~fs.fault
  /\ C40_Counted(fs)
  /\ last.op \in {"dup", "dup2", "close", "getdent"} /\ last.ret = 0 - EBADF
       => fs = last.before

\* the last descriptor of a file was closed while another file, read with
\* do_getdent, is shared by two descriptors
C40_Witness ==
  /\ last.op = "close"
  /\ last.ret = 0
  /\ fs.file[last.before.p_files[last.fd]] = file_none
  /\ \E file \in FileIds :
       /\ fs.file[file].f_refcount = 2
       /\ fs.file[file].f_pos > 0

====
